---- MODULE Spec2Model ----
(***************************************************************************)
(* Response normalisation of the survey front end.                        *)
(*                                                                         *)
(* extractPlanCandidate (client/src/lib/anomalyBackend.ts) and             *)
(* convertSurveyToRenderedPages (client/src/lib/plannerBackend.ts) are     *)
(* pure functions of one parsed JSON value.  A JavaScript value is a       *)
(* tagged record [t |-> tag, v |-> payload]; an object keeps its keys in   *)
(* insertion order (a sequence of <<key, value>> pairs) because            *)
(* Object.values() is order sensitive.  An exception raised by the code    *)
(* (a TypeError on a property read of null/undefined, or a call of a       *)
(* missing method) is the outcome Thrown.                                  *)
(***************************************************************************)
EXTENDS Integers, Sequences, FiniteSets, TLC

VARIABLES raw, pc, fn, result

vars == <<raw, pc, fn, result>>

(***************************************************************************)
(* JavaScript values                                                       *)
(***************************************************************************)
Undef == [t |-> "undefined"]
Null == [t |-> "null"]
Thrown == [t |-> "throw"]
Str(s) == [t |-> "string", v |-> s]
Num(n) == [t |-> "number", v |-> n]
Bool(b) == [t |-> "boolean", v |-> b]
Arr(s) == [t |-> "array", v |-> s]
Obj(s) == [t |-> "object", v |-> s]
EmptyObj == Obj(<<>>)
EmptyArr == Arr(<<>>)

IsThrown(x) == x.t = "throw"
Nullish(x) == x.t \in {"undefined", "null"}
IsArray(x) == x.t = "array"
IsString(x) == x.t = "string"
\* typeof x === 'object' (true of null and of arrays)
TypeofObject(x) == x.t \in {"object", "array", "null"}

\* ToBoolean: undefined, null, "", 0 and false are falsy
Truthy(x) ==
  CASE x.t \in {"undefined", "null"} -> FALSE
    [] x.t = "string" -> x.v # ""
    [] x.t = "number" -> x.v # 0
    [] x.t = "boolean" -> x.v
    [] OTHER -> TRUE

\* a || b
Or(a, b) == IF Truthy(a) THEN a ELSE b

HasKey(x, k) == x.t = "object" /\ \E i \in 1..Len(x.v) : x.v[i][1] = k

\* x.k for a value x that is neither null nor undefined
Get(x, k) ==
  IF HasKey(x, k)
  THEN x.v[CHOOSE i \in 1..Len(x.v) : x.v[i][1] = k][2]
  ELSE Undef

\* x?.k
OptGet(x, k) == IF Nullish(x) THEN Undef ELSE Get(x, k)

\* Object.values(x)
Values(x) ==
  CASE x.t = "object" -> [i \in 1..Len(x.v) |-> x.v[i][2]]
    [] x.t = "array" -> x.v
    [] x.t = "string" -> [i \in 1..Len(x.v) |-> Str(SubSeq(x.v, i, i))]
    [] OTHER -> <<>>

\* Object.values(x)[0]
FirstValue(x) == IF Len(Values(x)) > 0 THEN Values(x)[1] ELSE Undef

\* array.map(f), raising whatever a call of f raises
Map(F(_), s) == [i \in 1..Len(s) |-> F(s[i])]
MapIdx(F(_, _), s) == [i \in 1..Len(s) |-> F(s[i], i)]
AnyThrown(s) == \E i \in 1..Len(s) : IsThrown(s[i])
ArrOrThrown(s) == IF AnyThrown(s) THEN Thrown ELSE Arr(s)

\* `${x}` for the strings and non-negative integers the templates receive
ToStr(x) ==
  CASE x.t = "string" -> x.v
    [] x.t = "number" -> ToString(x.v)
    [] x.t = "boolean" -> (IF x.v THEN "true" ELSE "false")
    [] x.t = "object" -> "[object Object]"
    [] OTHER -> x.t

IsSpace(c) == c = " "
RECURSIVE TrimLeft(_)
TrimLeft(s) ==
  IF Len(s) > 0 /\ IsSpace(SubSeq(s, 1, 1)) THEN TrimLeft(Tail(s)) ELSE s
RECURSIVE TrimRight(_)
TrimRight(s) ==
  IF Len(s) > 0 /\ IsSpace(SubSeq(s, Len(s), Len(s)))
  THEN TrimRight(SubSeq(s, 1, Len(s) - 1)) ELSE s
\* String.prototype.trim
Trim(s) == TrimRight(TrimLeft(s))

(***************************************************************************)
(* extractPlanCandidate: survey.pages branch (anomalyBackend.ts 91-185)    *)
(***************************************************************************)
\* lines 101-114: the question text of a control
AnomalyQuestionText(control) ==
  LET label == Or(Get(control, "label"), EmptyObj) IN
  IF IsString(label) THEN label
  ELSE LET enText == Or(Get(label, "en"), Str(""))
           arText == Or(Get(label, "ar"), Str(""))
       IN IF Truthy(enText) /\ Truthy(arText)
          THEN Obj(<< <<"en", enText>>, <<"ar", arText>> >>)
          ELSE Or(Or(Or(enText, arText), FirstValue(label)), Str(""))

\* line 118: the options array that is looked at
AnomalyOptionsArray(control) ==
  Or(OptGet(OptGet(Get(control, "settings"), "props"), "options"),
     OptGet(Get(control, "props"), "options"))

\* lines 121-132: what one upstream option pushes
AnomalyOptionEntry(opt) ==
  IF Nullish(opt) THEN Thrown
  ELSE LET optLabel == Or(Get(opt, "label"), EmptyObj) IN
       IF IsString(optLabel) THEN optLabel
       ELSE LET enOpt == Or(Get(optLabel, "en"), Str(""))
                arOpt == Or(Get(optLabel, "ar"), Str(""))
            IN IF Truthy(enOpt) /\ Truthy(arOpt)
               THEN Obj(<< <<"en", enOpt>>, <<"ar", arOpt>> >>)
               ELSE Or(enOpt, arOpt)

\* lines 117-134: the options list (a sequence), or Thrown
AnomalyOptions(control) ==
  LET optionsArray == AnomalyOptionsArray(control) IN
  IF Truthy(optionsArray) /\ IsArray(optionsArray) /\ Len(optionsArray.v) > 0
  THEN ArrOrThrown(Map(AnomalyOptionEntry, optionsArray.v))
  ELSE EmptyArr

\* lines 137-149
AnomalyScale(control) ==
  LET scaleData == Or(OptGet(OptGet(Get(control, "settings"), "props"), "scale"),
                      OptGet(Get(control, "props"), "scale"))
  IN IF Truthy(scaleData)
     THEN Obj(<< <<"min", Get(scaleData, "min")>>,
                 <<"max", Get(scaleData, "max")>>,
                 <<"labels", IF Truthy(Get(scaleData, "labels"))
                             THEN Obj(<< <<"min", Get(Get(scaleData, "labels"), "min")>>,
                                         <<"max", Get(Get(scaleData, "labels"), "max")>> >>)
                             ELSE Undef>> >>)
     ELSE Undef

\* the select remapping left out
QuestionTypeAsGiven(control) == Or(Get(control, "type"), Str("text"))

\* lines 152-155
MapQuestionType(control) ==
  LET questionType == Or(Get(control, "type"), Str("text")) IN
  IF questionType = Str("select") THEN Str("dropdown_list") ELSE questionType

\* the value is copied as it is, null included
CopyAsIs(x) == x

\* x !== null && x !== undefined ? x : undefined
NullToUndefined(x) == IF ~Nullish(x) THEN x ELSE Undef

\* lines 166-175: options.length > 0 ? options : undefined
AnomalyOptionsField(options) == IF Len(options.v) > 0 THEN options ELSE Undef

\* lines 99-176: one control becomes one question
AnomalyControlToQuestion(control) ==
  IF Nullish(control) THEN Thrown
  ELSE LET options == AnomalyOptions(control)
           validations == OptGet(Get(control, "settings"), "validations")
       IN IF IsThrown(options) THEN Thrown
          ELSE Obj(<< <<"text", AnomalyQuestionText(control)>>,
                      <<"type", MapQuestionType(control)>>,
                      <<"options", AnomalyOptionsField(options)>>,
                      <<"required", Or(OptGet(validations, "required"), Bool(FALSE))>>,
                      <<"spec_id", Or(Or(Get(control, "id"), Get(control, "name")), Str(""))>>,
                      <<"scale", NullToUndefined(AnomalyScale(control))>>,
                      <<"validation", NullToUndefined(validations)>>,
                      <<"skip_logic", NullToUndefined(Get(control, "skip_logic"))>> >>)

\* lines 179 and 183: typeof x === 'object' ? (x.en || x.ar || Object.values(x)[0]) : (x || other)
ObjectName(x, other) ==
  IF TypeofObject(x)
  THEN IF Nullish(x) THEN Thrown
       ELSE Or(Or(Get(x, "en"), Get(x, "ar")), FirstValue(x))
  ELSE Or(x, other)

\* lines 97-182: one page becomes one section
AnomalyPageToSection(page, idx) ==
  IF Nullish(page) THEN Thrown
  ELSE LET controls == Or(Get(page, "controls"), EmptyArr) IN
       IF ~IsArray(controls) THEN Thrown   \* controls.map is not a function
       ELSE LET questions == ArrOrThrown(Map(AnomalyControlToQuestion, controls.v))
                title == ObjectName(Get(page, "name"),
                                    Or(Get(page, "title"), Str("Page " \o ToString(idx))))
            IN IF IsThrown(questions) \/ IsThrown(title) THEN Thrown
               ELSE Obj(<< <<"title", title>>, <<"questions", questions>> >>)

\* lines 94-184
SurveyPagesToPlan(r) ==
  LET survey == Get(r, "survey")
      sections == ArrOrThrown(MapIdx(AnomalyPageToSection, Get(survey, "pages").v))
      suggestedName == ObjectName(Get(survey, "title"), Str(""))
  IN IF IsThrown(sections) \/ IsThrown(suggestedName) THEN Thrown
     ELSE Obj(<< <<"sections", sections>>, <<"suggestedName", suggestedName>> >>)

\* line 91
IsSurveyPages(r) ==
  /\ Truthy(Get(r, "survey"))
  /\ Truthy(Get(Get(r, "survey"), "pages"))
  /\ IsArray(Get(Get(r, "survey"), "pages"))


(***************************************************************************)
(* extractPlanCandidate: rendered_pages and generated_questions branches   *)
(* (anomalyBackend.ts 187-249)                                             *)
(***************************************************************************)
\* the length test left out: an empty array is kept
ArrayOrUndefined(x) == IF Truthy(x) /\ IsArray(x) THEN x ELSE Undef

\* q.options && Array.isArray(q.options) && q.options.length > 0 ? q.options : undefined
NonEmptyArrayOrUndefined(x) ==
  IF Truthy(x) /\ IsArray(x) /\ Len(x.v) > 0 THEN x ELSE Undef

\* the trailing || '' and || 'text' defaults left out
RenderedQuestionNoDefaults(q) ==
  IF Nullish(q) THEN Thrown
  ELSE Obj(<< <<"text", Or(Get(q, "question_text"), Get(q, "text"))>>,
              <<"type", Or(Get(q, "question_type"), Get(q, "type"))>>,
              <<"options", IF Truthy(Get(q, "options")) /\ IsArray(Get(q, "options"))
                              /\ Len(Get(q, "options").v) > 0
                           THEN Get(q, "options") ELSE Undef>>,
              <<"required", Get(q, "required")>>,
              <<"spec_id", Get(q, "spec_id")>>,
              <<"scale", IF ~Nullish(Get(q, "scale")) THEN Get(q, "scale") ELSE Undef>>,
              <<"validation", IF ~Nullish(Get(q, "validation")) THEN Get(q, "validation") ELSE Undef>>,
              <<"skip_logic", IF ~Nullish(Get(q, "skip_logic")) THEN Get(q, "skip_logic") ELSE Undef>> >>)

\* lines 192-201
RenderedQuestion(q) ==
  IF Nullish(q) THEN Thrown
  ELSE Obj(<< <<"text", Or(Or(Get(q, "question_text"), Get(q, "text")), Str(""))>>,
              <<"type", Or(Or(Get(q, "question_type"), Get(q, "type")), Str("text"))>>,
              <<"options", NonEmptyArrayOrUndefined(Get(q, "options"))>>,
              <<"required", Get(q, "required")>>,
              <<"spec_id", Get(q, "spec_id")>>,
              <<"scale", NullToUndefined(Get(q, "scale"))>>,
              <<"validation", NullToUndefined(Get(q, "validation"))>>,
              <<"skip_logic", NullToUndefined(Get(q, "skip_logic"))>> >>)

\* lines 190-202
RenderedPageToSection(page) ==
  IF Nullish(page) THEN Thrown
  ELSE LET qs == Or(Get(page, "questions"), EmptyArr) IN
       IF ~IsArray(qs) THEN Thrown   \* (page.questions || []).map is not a function
       ELSE LET questions == ArrOrThrown(Map(RenderedQuestion, qs.v)) IN
            IF IsThrown(questions) THEN Thrown
            ELSE Obj(<< <<"title", Or(Get(page, "name"),
                                      Str("Page " \o ToStr(Or(Get(page, "page_number"), Str("")))))>>,
                        <<"questions", questions>> >>)

\* line 188
IsRenderedPages(r) == Truthy(Get(r, "rendered_pages")) /\ IsArray(Get(r, "rendered_pages"))

\* lines 189-204
RenderedPagesToPlan(r) ==
  LET sections == ArrOrThrown(Map(RenderedPageToSection, Get(r, "rendered_pages").v)) IN
  IF IsThrown(sections) THEN Thrown
  ELSE Obj(<< <<"sections", sections>>,
              <<"suggestedName", Or(Get(r, "suggestedName"), Get(r, "name"))>> >>)

\* lines 215-224 and 235-244
GeneratedQuestion(q) ==
  IF Nullish(q) THEN Thrown
  ELSE Obj(<< <<"text", Or(Or(Or(Get(q, "question_text"), Get(q, "text")), Get(q, "intent")), Str(""))>>,
              <<"type", Or(Or(Get(q, "question_type"), Get(q, "type")), Str("text"))>>,
              <<"options", NonEmptyArrayOrUndefined(Get(q, "options"))>>,
              <<"required", Get(q, "required")>>,
              <<"spec_id", Get(q, "spec_id")>>,
              <<"scale", NullToUndefined(Get(q, "scale"))>>,
              <<"validation", NullToUndefined(Get(q, "validation"))>>,
              <<"skip_logic", NullToUndefined(Get(q, "skip_logic"))>> >>)

\* every page titled by its position, its name ignored
GeneratedPageToSectionNumbered(page, idx) ==
  IF Nullish(page) THEN Thrown
  ELSE LET qs == IF IsArray(Get(page, "questions")) THEN Get(page, "questions").v ELSE <<>>
           questions == ArrOrThrown(Map(GeneratedQuestion, qs))
       IN IF IsThrown(questions) THEN Thrown
          ELSE Obj(<< <<"title", Str("Section " \o ToString(idx))>>,
                      <<"questions", questions>> >>)

\* lines 213-225 and 233-245
GeneratedPageToSection(page, idx) ==
  IF Nullish(page) THEN Thrown
  ELSE LET qs == IF IsArray(Get(page, "questions")) THEN Get(page, "questions").v ELSE <<>>
           questions == ArrOrThrown(Map(GeneratedQuestion, qs))
       IN IF IsThrown(questions) THEN Thrown
          ELSE Obj(<< <<"title", Or(Or(Get(page, "name"), Get(page, "title")),
                                    Str("Section " \o ToString(idx)))>>,
                      <<"questions", questions>> >>)

\* line 209
HasGeneratedQuestions(r) ==
  Truthy(Get(r, "generated_questions")) /\ TypeofObject(Get(r, "generated_questions"))

\* line 211
IsGeneratedRenderedPages(r) ==
  /\ HasGeneratedQuestions(r)
  /\ Truthy(Get(Get(r, "generated_questions"), "rendered_pages"))
  /\ IsArray(Get(Get(r, "generated_questions"), "rendered_pages"))

\* lines 230-231: the legacy map keyed by page id
IsGeneratedRecord(r) ==
  /\ HasGeneratedQuestions(r)
  /\ ~IsGeneratedRenderedPages(r)
  /\ LET pages == Values(Get(r, "generated_questions")) IN
     Len(pages) > 0 /\ Truthy(OptGet(pages[1], "questions"))

\* lines 212-227
GeneratedRenderedPagesToPlan(r) ==
  LET sections == ArrOrThrown(MapIdx(GeneratedPageToSection,
                                     Get(Get(r, "generated_questions"), "rendered_pages").v))
  IN IF IsThrown(sections) THEN Thrown
     ELSE Obj(<< <<"sections", sections>>,
                 <<"suggestedName", Or(Or(Get(r, "suggestedName"), Get(r, "name")),
                                       OptGet(Get(r, "plan"), "title"))>> >>)

\* lines 232-247
GeneratedRecordToPlan(r) ==
  LET sections == ArrOrThrown(MapIdx(GeneratedPageToSection,
                                     Values(Get(r, "generated_questions"))))
  IN IF IsThrown(sections) THEN Thrown
     ELSE Obj(<< <<"sections", sections>>,
                 <<"suggestedName", Or(Get(r, "suggestedName"), Get(r, "name"))>> >>)


(***************************************************************************)
(* bilingual.ts                                                            *)
(***************************************************************************)
\* getText, lines 22-37; userLang is "en" or "ar"
getText(field, userLang) ==
  IF ~Truthy(field) THEN Str("")
  ELSE IF IsString(field) THEN field
  ELSE IF TypeofObject(field) /\ HasKey(field, "en") /\ HasKey(field, "ar")
       THEN (IF userLang = "ar" THEN Get(field, "ar") ELSE Get(field, "en"))
       ELSE Str("")

\* getUserLanguagePreference without override, lines 59-67
getUserLanguagePreference(planLanguage) ==
  IF planLanguage = Str("ar") THEN "ar" ELSE "en"

(***************************************************************************)
(* Bilingual helpers (unnamed/part_001 166-342; bilingual.ts 22-49)        *)
(***************************************************************************)
\* getTextArray, bilingual.ts 46-49
getTextArray(fields, userLang) ==
  IF ~Truthy(fields) \/ ~IsArray(fields) THEN EmptyArr
  ELSE Arr([i \in 1..Len(fields.v) |-> getText(fields.v[i], userLang)])

CharAt(s, i) == SubSeq(s, i, i)
\* the "/" that \s*\/ reaches after a first group of i characters: only
\* white space lies between, and (.+) keeps at least one character after it
SlashAfter(s, i) ==
  { p \in (i + 1)..(Len(s) - 1) :
      CharAt(s, p) = "/" /\ \A k \in (i + 1)..(p - 1) : IsSpace(CharAt(s, k)) }
\* the lengths the lazy first group (.+?) can take
FirstGroupLengths(s) == { i \in 1..Len(s) : SlashAfter(s, i) # {} }
\* field.match(/^(.+?)\s*\/\s*(.+)$/): <<match[1], match[2]>>, or <<>> without a match;
\* the white space \s* takes from the head of match[2] is trimmed off later
CombinedMatch(s) ==
  IF FirstGroupLengths(s) = {} THEN <<>>
  ELSE LET i == CHOOSE n \in FirstGroupLengths(s) : \A m \in FirstGroupLengths(s) : n <= m
           p == CHOOSE q \in SlashAfter(s, i) : TRUE
       IN <<SubSeq(s, 1, i), TrimLeft(SubSeq(s, p + 1, Len(s)))>>

\* a pair of equal sides is accepted as well
SplitAcceptedAnyPair(enText, arText) == enText # "" /\ arText # ""

\* part_001 291: enText && arText && enText !== arText
SplitAccepted(enText, arText) == enText # "" /\ arText # "" /\ enText # arText

Both(en, ar) == Obj(<< <<"en", en>>, <<"ar", ar>> >>)

\* part_001 281-299: a string field
BothOfString(field) ==
  LET match == CombinedMatch(field.v) IN
  IF match # <<>> /\ SplitAccepted(Trim(match[1]), Trim(match[2]))
  THEN Both(Str(Trim(match[1])), Str(Trim(match[2])))
  ELSE Both(field, field)

\* getBothLanguages, part_001 277-308
getBothLanguages(field) ==
  IF ~Truthy(field) THEN Both(Str(""), Str(""))
  ELSE IF IsString(field) THEN BothOfString(field)
  ELSE IF TypeofObject(field) /\ HasKey(field, "en") /\ HasKey(field, "ar")
       THEN Both(Or(Get(field, "en"), Str("")), Or(Get(field, "ar"), Str("")))
       ELSE Both(Str(""), Str(""))

\* part_001 318-340: one element of the array
BothOfElement(field) ==
  IF TypeofObject(field) /\ field # Null /\ HasKey(field, "en") /\ HasKey(field, "ar")
  THEN Both(Or(Get(field, "en"), Str("")), Or(Get(field, "ar"), Str("")))
  ELSE IF IsString(field) THEN BothOfString(field)
  ELSE getBothLanguages(field)

RECURSIVE DropRepeats(_)
DropRepeats(s) ==
  IF s = <<>> THEN <<>>
  ELSE LET rest == DropRepeats(SubSeq(s, 1, Len(s) - 1))
           last == s[Len(s)]
       IN IF \E i \in 1..Len(rest) : rest[i] = last THEN rest ELSE Append(rest, last)
\* an element equal to an earlier one is left out
getBothLanguagesArrayDistinct(fields) ==
  IF ~Truthy(fields) \/ ~IsArray(fields) THEN EmptyArr
  ELSE Arr(DropRepeats([i \in 1..Len(fields.v) |-> BothOfElement(fields.v[i])]))

\* getBothLanguagesArray, part_001 316-342
getBothLanguagesArray(fields) ==
  IF ~Truthy(fields) \/ ~IsArray(fields) THEN EmptyArr
  ELSE Arr([i \in 1..Len(fields.v) |-> BothOfElement(fields.v[i])])

(***************************************************************************)
(* extractPlanCandidate: plan.pages branch (anomalyBackend.ts 258-301)     *)
(***************************************************************************)
\* lines 280-289
SpecToQuestion(spec) ==
  IF Nullish(spec) THEN Thrown
  ELSE Obj(<< <<"text", Or(Or(Or(Get(spec, "intent"), Get(spec, "question_text")),
                              Get(spec, "text")), Str(""))>>,
              <<"type", Or(Or(Get(spec, "question_type"), Get(spec, "type")), Str("text"))>>,
              <<"options", NonEmptyArrayOrUndefined(Get(spec, "options_hint"))>>,
              <<"required", Get(spec, "required")>>,
              <<"spec_id", Get(spec, "spec_id")>>,
              <<"validation", NullToUndefined(Get(spec, "validation"))>>,
              <<"skip_logic", NullToUndefined(Get(spec, "skip_logic"))>>,
              <<"scale", NullToUndefined(Get(spec, "scale"))>> >>)

\* lines 269-274: the qIdx-th placeholder (qIdx counted from 1)
PlaceholderQuestion(brief, qIdx) ==
  Obj(<< <<"text", Str("Question " \o ToString(qIdx) \o " (to be generated from section brief)")>>,
         <<"type", Str("text")>>,
         <<"section_brief", brief>> >>)

\* line 266 and Array.from({ length }): a count that is a number
PlaceholderCount(brief) ==
  LET questionCount == Or(Get(brief, "question_count"), Num(0)) IN
  IF questionCount.t = "number" /\ questionCount.v > 0 THEN questionCount.v ELSE 0

\* lines 262-298
PlanPageToSection(page, idx, userLang) ==
  IF Nullish(page) THEN Thrown
  ELSE LET title == Or(getText(Or(Get(page, "name"), Get(page, "title")), userLang),
                       Str("Section " \o ToString(idx)))
           brief == Get(page, "section_brief")
           specs == Get(page, "question_specs")
       IN IF Truthy(brief)
          THEN Obj(<< <<"title", title>>,
                      <<"questions", Arr([q \in 1..PlaceholderCount(brief) |->
                                             PlaceholderQuestion(brief, q)])>> >>)
          ELSE IF Truthy(specs) /\ IsArray(specs) /\ Len(specs.v) > 0
          THEN LET questions == ArrOrThrown(Map(SpecToQuestion, specs.v)) IN
               IF IsThrown(questions) THEN Thrown
               ELSE Obj(<< <<"title", title>>, <<"questions", questions>> >>)
          ELSE Obj(<< <<"title", title>>, <<"questions", EmptyArr>> >>)

\* line 259
IsPlanPages(r) ==
  Truthy(OptGet(Get(r, "plan"), "pages")) /\ IsArray(OptGet(Get(r, "plan"), "pages"))

\* lines 260-300
PlanPagesToPlan(r) ==
  LET plan == Get(r, "plan")
      userLang == getUserLanguagePreference(Or(Get(plan, "language"), Str("en")))
      pages == Get(plan, "pages").v
      sections == ArrOrThrown([i \in 1..Len(pages) |-> PlanPageToSection(pages[i], i, userLang)])
  IN IF IsThrown(sections) THEN Thrown
     ELSE Obj(<< <<"sections", sections>>,
                 <<"suggestedName", Or(Or(getText(Get(plan, "title"), userLang),
                                          Get(r, "suggestedName")), Get(r, "name"))>> >>)

(***************************************************************************)
(* extractPlanCandidate: wrappers and bare questions                       *)
(* (anomalyBackend.ts 251-257, 302-337)                                    *)
(***************************************************************************)
\* only the data wrapper is looked into
HasSectionsUnderDataOnly(r, k) ==
  k = "data" /\ Truthy(OptGet(Get(r, k), "sections")) /\ IsArray(OptGet(Get(r, k), "sections"))

\* r.k?.sections && Array.isArray(r.k.sections)
HasSectionsUnder(r, k) ==
  Truthy(OptGet(Get(r, k), "sections")) /\ IsArray(OptGet(Get(r, k), "sections"))

\* a plan with no section yet is not taken as canonical
IsSectionsNonEmpty(r) ==
  Truthy(Get(r, "sections")) /\ IsArray(Get(r, "sections")) /\ Len(Get(r, "sections").v) > 0

\* line 85
IsSections(r) == Truthy(Get(r, "sections")) /\ IsArray(Get(r, "sections"))

\* line 313
IsDataRenderedPages(r) ==
  Truthy(OptGet(Get(r, "data"), "rendered_pages")) /\ IsArray(OptGet(Get(r, "data"), "rendered_pages"))

\* lines 318-319
IsDataGeneratedQuestions(r) ==
  LET gq == OptGet(Get(r, "data"), "generated_questions") IN
  /\ Truthy(gq) /\ TypeofObject(gq)
  /\ Truthy(Get(gq, "rendered_pages")) /\ IsArray(Get(gq, "rendered_pages"))

\* the Array.isArray test left out
IsBareQuestionsAnyValue(r) == Truthy(Get(r, "questions")) /\ ~Truthy(Get(r, "sections"))

\* line 329
IsBareQuestions(r) ==
  Truthy(Get(r, "questions")) /\ IsArray(Get(r, "questions")) /\ ~Truthy(Get(r, "sections"))

\* the title of the input ignored
BareQuestionsToPlanFixedTitle(r) ==
  Obj(<< <<"sections", Arr(<< Obj(<< <<"title", Str("Survey Questions")>>,
                                     <<"questions", Get(r, "questions")>> >>) >>)>>,
         <<"suggestedName", Or(Get(r, "suggestedName"), Get(r, "name"))>> >>)

\* lines 330-336
BareQuestionsToPlan(r) ==
  Obj(<< <<"sections", Arr(<< Obj(<< <<"title", Or(Get(r, "title"), Str("Survey Questions"))>>,
                                     <<"questions", Get(r, "questions")>> >>) >>)>>,
         <<"suggestedName", Or(Get(r, "suggestedName"), Get(r, "name"))>> >>)

(***************************************************************************)
(* extractPlanCandidate (anomalyBackend.ts 79-341): the detection chain    *)
(***************************************************************************)
\* the rendered_pages test placed before the survey.pages test
DetectedShapeRenderedFirst(r) ==
  IF ~Truthy(r) \/ ~TypeofObject(r) THEN "raw"
  ELSE IF IsSections(r) THEN "sections"
  ELSE IF IsRenderedPages(r) THEN "rendered_pages"
  ELSE IF IsSurveyPages(r) THEN "survey.pages"
  ELSE IF IsGeneratedRenderedPages(r) THEN "generated_questions.rendered_pages"
  ELSE IF IsGeneratedRecord(r) THEN "generated_questions.record"
  ELSE IF HasSectionsUnder(r, "survey_plan") THEN "survey_plan.sections"
  ELSE IF HasSectionsUnder(r, "surveyPlan") THEN "surveyPlan.sections"
  ELSE IF IsPlanPages(r) THEN "plan.pages"
  ELSE IF HasSectionsUnder(r, "plan") THEN "plan.sections"
  ELSE IF HasSectionsUnder(r, "data") THEN "data.sections"
  ELSE IF HasSectionsUnder(r, "result") THEN "result.sections"
  ELSE IF IsDataRenderedPages(r) THEN "data.rendered_pages"
  ELSE IF IsDataGeneratedQuestions(r) THEN "data.generated_questions"
  ELSE IF IsBareQuestions(r) THEN "questions"
  ELSE "raw"

\* the branch whose condition is the first to hold, in source order
DetectedShape(r) ==
  IF ~Truthy(r) \/ ~TypeofObject(r) THEN "raw"                           \* line 80
  ELSE IF IsSections(r) THEN "sections"                                  \* line 85
  ELSE IF IsSurveyPages(r) THEN "survey.pages"                           \* line 91
  ELSE IF IsRenderedPages(r) THEN "rendered_pages"                       \* line 188
  ELSE IF IsGeneratedRenderedPages(r) THEN "generated_questions.rendered_pages"  \* line 211
  ELSE IF IsGeneratedRecord(r) THEN "generated_questions.record"         \* line 231
  ELSE IF HasSectionsUnder(r, "survey_plan") THEN "survey_plan.sections" \* line 252
  ELSE IF HasSectionsUnder(r, "surveyPlan") THEN "surveyPlan.sections"   \* line 255
  ELSE IF IsPlanPages(r) THEN "plan.pages"                               \* line 259
  ELSE IF HasSectionsUnder(r, "plan") THEN "plan.sections"               \* line 302
  ELSE IF HasSectionsUnder(r, "data") THEN "data.sections"               \* line 305
  ELSE IF HasSectionsUnder(r, "result") THEN "result.sections"           \* line 308
  ELSE IF IsDataRenderedPages(r) THEN "data.rendered_pages"              \* line 313
  ELSE IF IsDataGeneratedQuestions(r) THEN "data.generated_questions"    \* line 318
  ELSE IF IsBareQuestions(r) THEN "questions"                            \* line 329
  ELSE "raw"                                                             \* line 340

\* line 314: the object the function calls itself on
DataRenderedPagesArg(r) ==
  Obj(<< <<"rendered_pages", Get(Get(r, "data"), "rendered_pages")>>,
         <<"suggestedName", Or(Get(Get(r, "data"), "suggestedName"),
                               Get(Get(r, "data"), "name"))>> >>)

\* lines 320-323: the object the function calls itself on
DataGeneratedQuestionsArg(r) ==
  Obj(<< <<"generated_questions", Get(Get(r, "data"), "generated_questions")>>,
         <<"suggestedName", Or(Or(Get(Get(r, "data"), "suggestedName"),
                                  Get(Get(r, "data"), "name")),
                               OptGet(Get(r, "plan"), "title"))>> >>)

RECURSIVE extractPlanCandidate(_)
extractPlanCandidate(r) ==
  LET shape == DetectedShape(r) IN
  CASE shape = "sections" -> r
    [] shape = "survey.pages" -> SurveyPagesToPlan(r)
    [] shape = "rendered_pages" -> RenderedPagesToPlan(r)
    [] shape = "generated_questions.rendered_pages" -> GeneratedRenderedPagesToPlan(r)
    [] shape = "generated_questions.record" -> GeneratedRecordToPlan(r)
    [] shape = "survey_plan.sections" -> Get(r, "survey_plan")
    [] shape = "surveyPlan.sections" -> Get(r, "surveyPlan")
    [] shape = "plan.pages" -> PlanPagesToPlan(r)
    [] shape = "plan.sections" -> Get(r, "plan")
    [] shape = "data.sections" -> Get(r, "data")
    [] shape = "result.sections" -> Get(r, "result")
    [] shape = "data.rendered_pages" -> extractPlanCandidate(DataRenderedPagesArg(r))
    [] shape = "data.generated_questions" -> extractPlanCandidate(DataGeneratedQuestionsArg(r))
    [] shape = "questions" -> BareQuestionsToPlan(r)
    [] OTHER -> r


(***************************************************************************)
(* convertSurveyToRenderedPages (plannerBackend.ts 277-458)                *)
(***************************************************************************)
\* `${en} / ${ar}`
Combine(en, ar) == Str(ToStr(en) \o " / " \o ToStr(ar))

\* lines 295-309
PlannerQuestionText(control) ==
  LET label == Or(Get(control, "label"), EmptyObj) IN
  IF IsString(label) THEN label
  ELSE LET enText == Or(Get(label, "en"), Str(""))
           arText == Or(Get(label, "ar"), Str(""))
       IN IF Truthy(enText) /\ Truthy(arText)
          THEN Combine(enText, arText)
          ELSE Or(Or(Or(enText, arText), FirstValue(label)), Str(""))

\* line 332: Object.values(optLabel).find(v => v && typeof v === 'string')
FindStringValue(x) ==
  LET vals == Values(x)
      hits == {i \in 1..Len(vals) : Truthy(vals[i]) /\ IsString(vals[i])}
  IN IF hits = {} THEN Undef
     ELSE vals[CHOOSE i \in hits : \A j \in hits : i <= j]

\* lines 319-334: optionText of one upstream option; Thrown is caught at line 342
PlannerOptionText(opt) ==
  IF Nullish(opt) THEN Thrown
  ELSE LET optLabel == Or(Get(opt, "label"), EmptyObj) IN
       IF IsString(optLabel) THEN optLabel
       ELSE IF Truthy(optLabel) /\ TypeofObject(optLabel)
       THEN LET enOpt == Or(Get(optLabel, "en"), Str(""))
                arOpt == Or(Get(optLabel, "ar"), Str(""))
            IN IF Truthy(enOpt) /\ Truthy(arOpt)
               THEN Combine(enOpt, arOpt)
               ELSE Or(Or(Or(enOpt, arOpt), FindStringValue(optLabel)), Str(""))
       ELSE Str("")

\* lines 337-344: pushed when optionText.trim().length > 0; a TypeError
\* (opt is null, optionText is no string) is caught and the option skipped
PlannerOptionKept(opt) ==
  LET optionText == PlannerOptionText(opt) IN
  IsString(optionText) /\ Len(Trim(optionText.v)) > 0

\* line 314
PlannerOptionsArray(control) ==
  Or(OptGet(OptGet(Get(control, "settings"), "props"), "options"),
     OptGet(Get(control, "props"), "options"))

\* lines 312-346: the options list
PlannerOptions(control) ==
  LET optionsArray == PlannerOptionsArray(control) IN
  IF Truthy(optionsArray) /\ IsArray(optionsArray) /\ Len(optionsArray.v) > 0
  THEN Arr(Map(PlannerOptionText, SelectSeq(optionsArray.v, PlannerOptionKept)))
  ELSE EmptyArr

\* lines 377-383 and 386-392: one bound's label
PlannerScaleLabel(l) ==
  IF IsString(l) THEN l
  ELSE LET en == Or(Get(l, "en"), Str(""))
           ar == Or(Get(l, "ar"), Str(""))
       IN IF Truthy(en) /\ Truthy(ar) THEN Combine(en, ar)
          ELSE Or(Or(Or(en, ar), FirstValue(l)), Str(""))

\* lines 369-395
PlannerScaleLabels(scaleData) ==
  LET labels == Or(Get(scaleData, "labels"), EmptyObj) IN
  IF IsString(labels) THEN labels
  ELSE Obj((IF Truthy(Get(labels, "min"))
            THEN << <<"min", PlannerScaleLabel(Get(labels, "min"))>> >> ELSE <<>>)
           \o
           (IF Truthy(Get(labels, "max"))
            THEN << <<"max", PlannerScaleLabel(Get(labels, "max"))>> >> ELSE <<>>))

\* lines 365-396
PlannerScale(control) ==
  LET scaleData == Or(OptGet(OptGet(Get(control, "settings"), "props"), "scale"),
                      OptGet(Get(control, "props"), "scale"))
  IN IF Truthy(scaleData)
     THEN Obj(<< <<"min", Get(scaleData, "min")>>,
                 <<"max", Get(scaleData, "max")>>,
                 <<"labels", PlannerScaleLabels(scaleData)>> >>)
     ELSE Undef

\* the own enumerable properties an object spread copies
SpreadPairs(x) ==
  CASE x.t = "object" -> x.v
    [] x.t = "array" -> [i \in 1..Len(x.v) |-> <<ToString(i - 1), x.v[i]>>]
    [] x.t = "string" -> [i \in 1..Len(x.v) |-> <<ToString(i - 1), Str(SubSeq(x.v, i, i))>>]
    [] OTHER -> <<>>

\* { ...base, ...x }: a key of base keeps its place and takes x's value
Spread(base, x) ==
  LET extra == SpreadPairs(x)
      NewValue(pair) ==
        IF \E j \in 1..Len(extra) : extra[j][1] = pair[1]
        THEN <<pair[1], extra[CHOOSE j \in 1..Len(extra) : extra[j][1] = pair[1]][2]>>
        ELSE pair
      IsNew(pair) == ~\E i \in 1..Len(base) : base[i][1] = pair[1]
  IN Obj(Map(NewValue, base) \o SelectSeq(extra, IsNew))

\* lines 399-405
PlannerValidation(control) ==
  LET validations == OptGet(Get(control, "settings"), "validations") IN
  IF Truthy(validations)
  THEN Spread(<< <<"required", Or(Get(validations, "required"), Bool(FALSE))>>,
                 <<"max_length", Get(validations, "max_length")>>,
                 <<"min_length", Get(validations, "min_length")>>,
                 <<"pattern", Get(validations, "pattern")>> >>, validations)
  ELSE Undef

\* lines 425-441: questionText.substring is read when the type is choice-based
PlannerLogThrows(questionType, questionText) ==
  /\ questionType \in {Str("radio"), Str("checkbox_list"), Str("dropdown_list"), Str("select")}
  /\ ~IsString(questionText)

\* lines 292-444
PlannerControlToQuestion(control) ==
  IF Nullish(control) THEN Thrown
  ELSE LET questionText == PlannerQuestionText(control)
           questionType == MapQuestionType(control)
       IN IF PlannerLogThrows(questionType, questionText) THEN Thrown
          ELSE Obj(<< <<"spec_id", Or(Or(Get(control, "id"), Get(control, "name")), Str(""))>>,
                      <<"question_type", questionType>>,
                      <<"question_text", questionText>>,
                      <<"required", Or(OptGet(OptGet(Get(control, "settings"), "validations"),
                                              "required"), Bool(FALSE))>>,
                      <<"options", PlannerOptions(control)>>,
                      <<"scale", PlannerScale(control)>>,
                      <<"validation", PlannerValidation(control)>>,
                      <<"skip_logic", Or(Get(control, "skip_logic"), Undef)>> >>)

\* lines 448-451
PlannerPageName(page) ==
  LET pageTitle == Or(Or(Get(page, "title"), Get(page, "name")), EmptyObj) IN
  IF IsString(pageTitle) THEN pageTitle
  ELSE Or(Or(Or(Get(pageTitle, "en"), Get(pageTitle, "ar")), Get(page, "id")),
          Str("Page " \o ToStr(Or(Get(page, "id"), Str("")))))

\* lines 290-457
PlannerPage(page) ==
  IF Nullish(page) THEN Thrown
  ELSE LET controls == Or(Get(page, "controls"), EmptyArr) IN
       IF ~IsArray(controls) THEN Thrown   \* controls.map is not a function
       ELSE LET questions == ArrOrThrown(Map(PlannerControlToQuestion, controls.v)) IN
            IF IsThrown(questions) THEN Thrown
            ELSE Obj(<< <<"name", PlannerPageName(page)>>, <<"questions", questions>> >>)

\* lines 277-458
convertSurveyToRenderedPages(survey) ==
  IF ~Truthy(survey) \/ ~Truthy(Get(survey, "pages")) \/ ~IsArray(Get(survey, "pages"))
  THEN EmptyArr
  ELSE ArrOrThrown(Map(PlannerPage, Get(survey, "pages").v))


(***************************************************************************)
(* ConfigPage.tsx, handleGenerate: the plan saved when review is off       *)
(* (lines 265-317)                                                         *)
(***************************************************************************)
\* x.length of a string or an array; undefined otherwise
LengthOf(x) ==
  IF x.t \in {"array", "string"} THEN Num(Len(x.v)) ELSE Undef
\* x && x.length > 0
HasLength(x) == Truthy(x) /\ LengthOf(x).t = "number" /\ LengthOf(x).v > 0

\* lines 291-296: the qIdx-th placeholder (qIdx counted from 1)
ConfigPlaceholderQuestion(brief, qIdx) ==
  Obj(<< <<"text", Str("Question " \o ToString(qIdx) \o " (to be generated)")>>,
         <<"type", Str("text")>>,
         <<"section_brief", brief>> >>)

\* lines 302-306
ConfigSpecToQuestion(spec) ==
  IF Nullish(spec) THEN Thrown
  ELSE Obj(<< <<"text", Get(spec, "intent")>>,
              <<"type", Get(spec, "question_type")>>,
              <<"options", IF HasLength(Get(spec, "options_hint"))
                           THEN Get(spec, "options_hint") ELSE Undef>> >>)

\* lines 282-313
ConfigPageToSection(page, idx) ==
  IF Nullish(page) THEN Thrown
  ELSE LET title == Or(Get(page, "name"), Str("Section " \o ToString(idx)))
           brief == Get(page, "section_brief")
           specs == Get(page, "question_specs")
       IN IF Truthy(brief)
          THEN Obj(<< <<"title", title>>,
                      <<"questions", Arr([q \in 1..PlaceholderCount(brief) |->
                                             ConfigPlaceholderQuestion(brief, q)])>> >>)
          ELSE IF HasLength(specs)
          THEN (IF ~IsArray(specs) THEN Thrown   \* a string has no map
                ELSE LET questions == ArrOrThrown(Map(ConfigSpecToQuestion, specs.v)) IN
                     IF IsThrown(questions) THEN Thrown
                     ELSE Obj(<< <<"title", title>>, <<"questions", questions>> >>))
          ELSE Obj(<< <<"title", title>>, <<"questions", EmptyArr>> >>)

\* line 265: the plan structure that is accepted
HasPlanPages(planResponse) ==
  /\ Truthy(planResponse) /\ TypeofObject(planResponse)
  /\ Truthy(Get(planResponse, "plan"))
  /\ Truthy(Get(Get(planResponse, "plan"), "pages"))
  /\ IsArray(Get(Get(planResponse, "plan"), "pages"))
  /\ Len(Get(Get(planResponse, "plan"), "pages").v) > 0

\* lines 281-317
transformedPlan(planResponse) ==
  LET pages == Get(Get(planResponse, "plan"), "pages").v
      sections == ArrOrThrown(MapIdx(ConfigPageToSection, pages))
  IN IF IsThrown(sections) THEN Thrown
     ELSE Obj(<< <<"sections", sections>>,
                 <<"suggestedName", Get(Get(planResponse, "plan"), "title")>> >>)


(***************************************************************************)
(* The payloads the functions are applied to.  Absent marks a key that is  *)
(* left out of an object; it is not a JavaScript value.                    *)
(***************************************************************************)
MaxOptions == 2
MaxItems == 2
MaxPages == 2
MaxQuestionCount == 2

Absent == [t |-> "absent"]
IsPresent(pair) == pair[2].t # "absent"
MkObj(pairs) == Obj(SelectSeq(pairs, IsPresent))
SeqsUpTo(S, n) == UNION {[1..k -> S] : k \in 0..n}

BiAB == Obj(<< <<"en", Str("A")>>, <<"ar", Str("B")>> >>)
BiEmpty == Obj(<< <<"en", Str("")>>, <<"ar", Str("")>> >>)

\* ---- options of a survey control
OptYes == Obj(<< <<"label", Str("Yes")>> >>)
OptBi == Obj(<< <<"label", BiAB>> >>)
OptEmptyBi == Obj(<< <<"label", BiEmpty>> >>)
OptBlank == Obj(<< <<"label", Str("  ")>> >>)
OptOther == Obj(<< <<"label", Str("Other")>> >>)
OptionItems == {OptYes, OptBi, OptEmptyBi, OptBlank, Null}
OddOptionLists ==
  { <<Obj(<< <<"label", Str("")>> >>)>>,
    <<Obj(<< <<"label", Obj(<< <<"en", Str("No")>> >>)>> >>)>>,
    <<Obj(<< <<"label", Obj(<< <<"fr", Str("Oui")>> >>)>> >>), OptYes>>,
    <<Obj(<< <<"label", Obj(<< <<"en", Num(5)>> >>)>> >>), OptYes>>,
    <<Obj(<< <<"label", Null>> >>)>>,
    <<Str("plain"), OptYes>>,
    <<EmptyObj>>,
    <<Undef, OptYes>> }
OptionLists == SeqsUpTo(OptionItems, MaxOptions) \cup OddOptionLists

SettingsOptionValues == {Arr(l) : l \in OptionLists} \cup {Absent, Null, Str("x")}
PropsOptionValues == {Absent, EmptyArr, Arr(<<OptOther>>)}

\* ---- controls of a survey page
OptionControl(so, po) ==
  MkObj(<< <<"id", Str("q1")>>, <<"type", Str("radio")>>, <<"label", Str("Q")>>,
           <<"settings", MkObj(<< <<"props", MkObj(<< <<"options", so>> >>)>> >>)>>,
           <<"props", MkObj(<< <<"options", po>> >>)>> >>)
OptionControls ==
  {OptionControl(so, po) : so \in SettingsOptionValues, po \in PropsOptionValues}
  \cup { MkObj(<< <<"type", Str("radio")>>, <<"settings", st>>,
                  <<"props", Obj(<< <<"options", Arr(<<OptOther>>)>> >>)>> >>)
         : st \in {Absent, Null, Str("s"), Obj(<< <<"props", Null>> >>)} }

ControlLabels ==
  { Absent, Null, Str(""), Str("Q"), BiAB, BiEmpty, EmptyObj, Num(5),
    Obj(<< <<"en", Str("A")>> >>), Obj(<< <<"ar", Str("B")>> >>),
    Obj(<< <<"fr", Str("C")>> >>), Obj(<< <<"en", Str("")>>, <<"fr", Str("C")>> >>),
    Obj(<< <<"en", Num(5)>> >>), Obj(<< <<"en", Str("A / B")>>, <<"ar", Str("C")>> >>) }
LabelControls ==
  { MkObj(<< <<"name", Str("n1")>>, <<"type", ty>>, <<"label", l>> >>)
    : l \in ControlLabels, ty \in {Str("text"), Str("radio")} }

ControlTypes ==
  { Absent, Null, Str(""), Str("text"), Str("number"), Str("select"), Str("radio"),
    Str("checkbox_list"), Str("dropdown_list"), Str("choice"), Num(3) }
TypeControls ==
  { MkObj(<< <<"id", Str("q2")>>, <<"type", ty>>, <<"label", Str("Q")>>, <<"props", pr>> >>)
    : ty \in ControlTypes,
      pr \in {Absent, Obj(<< <<"options", Arr(<<OptYes>>)>> >>)} }

ScaleValues ==
  { Obj(<< <<"min", Num(1)>>, <<"max", Num(5)>> >>),
    Obj(<< <<"min", Num(1)>>, <<"max", Num(5)>>,
           <<"labels", Obj(<< <<"min", Str("Low")>>, <<"max", BiAB>> >>)>> >>),
    Obj(<< <<"min", Num(0)>>, <<"max", Num(10)>>, <<"labels", Str("lo-hi")>> >>),
    Null }
ValidationValues ==
  { Absent, Null, Obj(<< <<"required", Bool(TRUE)>> >>),
    Obj(<< <<"max_length", Num(10)>>, <<"required", Bool(FALSE)>> >>), EmptyObj }
SkipLogicValues == {Absent, Null, Num(0), Obj(<< <<"if", Str("q1")>> >>)}
MetaControls ==
  { MkObj(<< <<"id", Str("q3")>>, <<"type", Str("scale")>>, <<"label", Str("Q")>>,
             <<"settings", Obj(<< <<"props", Obj(<< <<"scale", sc>> >>)>> >>)>> >>)
    : sc \in ScaleValues }
  \cup { MkObj(<< <<"id", Str("q3")>>, <<"type", Str("scale")>>,
                  <<"props", Obj(<< <<"scale", sc>> >>)>> >>) : sc \in ScaleValues }
  \cup { MkObj(<< <<"id", Str("q4")>>, <<"type", Str("text")>>, <<"label", Str("Q")>>,
                  <<"settings", MkObj(<< <<"validations", va>> >>)>>,
                  <<"skip_logic", sk>> >>)
         : va \in ValidationValues, sk \in SkipLogicValues }

OddControls == {Null, Undef, Str("ctl"), Num(7), EmptyObj}
ControlSet == OptionControls \cup LabelControls \cup TypeControls \cup MetaControls \cup OddControls

CtlText == MkObj(<< <<"id", Str("t")>>, <<"type", Str("text")>>, <<"label", BiAB>> >>)
CtlRadio == OptionControl(Arr(<<OptYes, OptBi>>), Absent)
CtlSelect == MkObj(<< <<"id", Str("s")>>, <<"type", Str("select")>>, <<"label", Str("Pick")>> >>)
SmallControls == {CtlText, CtlRadio, CtlSelect, Null}


\* ---- pages of a survey
SurveyPage(name, controls) == MkObj(<< <<"name", name>>, <<"controls", controls>> >>)
PageNames == {Absent, Null, Str(""), Str("P"), BiAB, Obj(<< <<"ar", Str("B")>> >>), EmptyObj, Num(1)}
SurveyPageSet ==
  {SurveyPage(Str("P1"), Arr(<<c>>)) : c \in ControlSet}
  \cup {SurveyPage(Str("P2"), Arr(cs)) : cs \in SeqsUpTo(SmallControls, MaxItems)}
  \cup { MkObj(<< <<"name", n>>, <<"title", ti>>, <<"controls", Arr(<<CtlText>>)>> >>)
         : n \in PageNames, ti \in {Absent, Str("T")} }
  \cup {SurveyPage(Str("P3"), cs) : cs \in {Absent, Null, Str("x"), EmptyObj, Num(0)}}
  \cup {Null, Undef, Str("page"), Num(5)}

PageA == SurveyPage(Str("PA"), Arr(<<CtlText, CtlRadio>>))
PageB == SurveyPage(BiAB, Arr(<<CtlSelect>>))
SmallPages == {PageA, PageB, Null}
SurveyTitles == {Absent, Null, Str("S"), Obj(<< <<"en", Str("S")>> >>), EmptyObj}

Survey(title, pages) == MkObj(<< <<"id", Str("thread_1")>>, <<"title", title>>, <<"pages", pages>> >>)
SurveyPayloads ==
  {Obj(<< <<"survey", Survey(Absent, Arr(<<pg>>))>> >>) : pg \in SurveyPageSet}
  \cup {Obj(<< <<"survey", Survey(Str("S"), Arr(ps))>> >>) : ps \in SeqsUpTo(SmallPages, MaxPages)}
  \cup {Obj(<< <<"survey", Survey(ti, Arr(<<PageA>>))>> >>) : ti \in SurveyTitles}

\* ---- questions of a rendered page and specs of a plan page
AbsenceValues ==
  {Absent, Undef, Null, Num(0), Obj(<< <<"min", Num(1)>>, <<"max", Num(5)>> >>)}
QuestionOptions ==
  {Absent, Null, EmptyArr, Str("x"), Arr(<<Str("a")>>), Arr(<<Str("a"), BiAB>>)}
QuestionTexts ==
  { <<Absent, Absent, Absent>>, <<Str("QT"), Absent, Absent>>, <<Absent, Str("T"), Absent>>,
    <<Absent, Absent, Str("I")>>, <<Str(""), Str("T"), Str("I")>>, <<Null, Absent, Str("I")>>,
    <<Str("QT"), Str("T"), Str("I")>>, <<BiAB, Absent, Absent>> }
QuestionTypes ==
  { <<Absent, Absent>>, <<Str("radio"), Absent>>, <<Absent, Str("number")>>,
    <<Str(""), Str("choice")>>, <<Str("radio"), Str("text")>>, <<Null, Absent>> }

Question(tx, ty, op, sc, va, sk) ==
  MkObj(<< <<"spec_id", Str("s1")>>, <<"question_text", tx[1]>>, <<"text", tx[2]>>,
           <<"intent", tx[3]>>, <<"question_type", ty[1]>>, <<"type", ty[2]>>,
           <<"options", op>>, <<"options_hint", op>>, <<"required", Bool(TRUE)>>,
           <<"scale", sc>>, <<"validation", va>>, <<"skip_logic", sk>> >>)
PlainText == <<Str("QT"), Absent, Absent>>
PlainType == <<Str("number"), Absent>>
ChoiceType == <<Str("radio"), Absent>>
QuestionSet ==
  {Question(tx, ty, Absent, Absent, Absent, Absent) : tx \in QuestionTexts, ty \in QuestionTypes}
  \cup {Question(PlainText, ty, op, Absent, Absent, Absent)
        : ty \in {PlainType, ChoiceType}, op \in QuestionOptions}
  \cup {Question(PlainText, PlainType, Absent, sc, va, sk)
        : sc \in AbsenceValues, va \in AbsenceValues, sk \in AbsenceValues}
  \cup {Null, Undef, Num(5), Str("q"), EmptyObj}

QPlain == Question(PlainText, PlainType, Absent, Absent, Absent, Absent)
QChoice == Question(PlainText, ChoiceType, Arr(<<Str("a"), Str("b")>>), Null, Null, Null)
SmallQuestions == {QPlain, QChoice, Null}

\* ---- rendered pages
RenderedPage(name, questions) == MkObj(<< <<"name", name>>, <<"questions", questions>> >>)
RenderedPageSet ==
  {RenderedPage(Str("Page 1"), Arr(<<q>>)) : q \in QuestionSet}
  \cup {RenderedPage(Str("Page 2"), Arr(qs)) : qs \in SeqsUpTo(SmallQuestions, MaxItems)}
  \cup { MkObj(<< <<"name", n>>, <<"title", ti>>, <<"page_number", pn>>,
                  <<"questions", Arr(<<QPlain>>)>> >>)
         : n \in {Absent, Str(""), Str("P")}, ti \in {Absent, Str("T")},
           pn \in {Absent, Num(0), Num(2)} }
  \cup {RenderedPage(Str("Page 3"), qs) : qs \in {Absent, Null, Str("x"), EmptyObj}}
  \cup {Null, Undef, Str("page"), Num(5)}

RPageA == RenderedPage(Str("RA"), Arr(<<QPlain, QChoice>>))
RPageB == RenderedPage(Absent, Arr(<<QChoice>>))
SmallRenderedPages == {RPageA, RPageB, Null}
RenderedPageLists ==
  {<<pg>> : pg \in RenderedPageSet} \cup SeqsUpTo(SmallRenderedPages, MaxPages)

Names == { <<Absent, Absent>>, <<Str("SN"), Absent>>, <<Absent, Str("N")>>, <<Str("SN"), Str("N")>> }
RenderedPayloads ==
  {Obj(<< <<"rendered_pages", Arr(ps)>> >>) : ps \in RenderedPageLists}
  \cup { MkObj(<< <<"rendered_pages", Arr(<<RPageA>>)>>, <<"suggestedName", nm[1]>>,
                  <<"name", nm[2]>> >>) : nm \in Names }

\* the legacy record keyed by page id
PageRecord(ps) == Obj([i \in 1..Len(ps) |-> <<"page_" \o ToString(i), ps[i]>>])
GeneratedPayloads ==
  {Obj(<< <<"generated_questions", Obj(<< <<"rendered_pages", Arr(ps)>> >>)>> >>)
   : ps \in RenderedPageLists}
  \cup {Obj(<< <<"generated_questions", PageRecord(ps)>> >>) : ps \in RenderedPageLists}
  \cup { Obj(<< <<"generated_questions", g>> >>)
         : g \in { EmptyObj, EmptyArr, Arr(<<RPageA, RPageB>>), Str("g"), Null,
                   Obj(<< <<"rendered_pages", Str("x")>> >>),
                   Obj(<< <<"rendered_pages", EmptyArr>> >>),
                   PageRecord(<<RenderedPage(Str("E"), EmptyArr), RPageA>>),
                   PageRecord(<<RPageA, RenderedPage(Str("E"), Str("x"))>>) } }
  \cup { MkObj(<< <<"generated_questions", Obj(<< <<"rendered_pages", Arr(<<RPageA>>)>> >>)>>,
                  <<"suggestedName", nm[1]>>, <<"name", nm[2]>>,
                  <<"plan", pl>> >>)
         : nm \in Names, pl \in {Absent, Obj(<< <<"title", Str("PT")>> >>)} }


\* ---- plan.pages
Briefs ==
  {Obj(<< <<"question_count", Num(n)>>, <<"goal", Str("g")>> >>) : n \in 0..MaxQuestionCount}
  \cup {Obj(<< <<"goal", Str("g")>> >>), EmptyObj}
SpecLists ==
  {Arr(<<q>>) : q \in QuestionSet}
  \cup {Arr(qs) : qs \in SeqsUpTo(SmallQuestions, MaxItems)}
  \cup {Absent, Null, Str("x")}
PlanPage(name, title, brief, specs) ==
  MkObj(<< <<"name", name>>, <<"title", title>>, <<"section_brief", brief>>,
           <<"question_specs", specs>> >>)
PlanPageSet ==
  {PlanPage(Str("P1"), Absent, Absent, sp) : sp \in SpecLists}
  \cup {PlanPage(Str("P2"), Absent, br, sp) : br \in Briefs, sp \in {Absent, Arr(<<QPlain>>)}}
  \cup { PlanPage(n, ti, Absent, Arr(<<QPlain>>))
         : n \in {Absent, Str("P"), BiAB, Obj(<< <<"en", Str("A")>> >>), Num(4)},
           ti \in {Absent, BiAB} }
  \cup {Null, Undef, Str("page")}
PPageSpecs == PlanPage(BiAB, Absent, Absent, Arr(<<QPlain, QChoice>>))
PPageBrief == PlanPage(Str("PB"), Absent, Obj(<< <<"question_count", Num(MaxQuestionCount)>> >>), Absent)
SmallPlanPages == {PPageSpecs, PPageBrief, Null}
Plan(language, title, pages) ==
  MkObj(<< <<"language", language>>, <<"title", title>>, <<"pages", pages>> >>)
PlanPayloads ==
  {Obj(<< <<"plan", Plan(Absent, Absent, Arr(<<pg>>))>> >>) : pg \in PlanPageSet}
  \cup {Obj(<< <<"plan", Plan(Str("en"), Str("PT"), Arr(ps))>> >>)
        : ps \in SeqsUpTo(SmallPlanPages, MaxPages)}
  \cup { MkObj(<< <<"plan", Plan(la, ti, Arr(<<PPageSpecs>>))>>, <<"name", nm>> >>)
         : la \in {Absent, Str("en"), Str("ar"), Str("both")},
           ti \in {Absent, Str("PT"), BiAB}, nm \in {Absent, Str("N")} }

\* ---- bare questions
CanonQuestion == Obj(<< <<"text", Str("Canon?")>>, <<"type", Str("text")>> >>)
BareItems == {CanonQuestion, Obj(<< <<"id", Str("no-text")>> >>), EmptyObj, Null}
BarePayloads ==
  { MkObj(<< <<"title", ti>>, <<"questions", Arr(qs)>> >>)
    : ti \in {Absent, Str("My title")}, qs \in SeqsUpTo(BareItems, MaxItems) }
  \cup { MkObj(<< <<"sections", se>>, <<"questions", Arr(<<CanonQuestion>>)>> >>)
         : se \in {Null, Str(""), Str("x"), EmptyObj} }
  \cup { Obj(<< <<"questions", qv>> >>) : qv \in {Null, Str("q"), EmptyObj} }

\* ---- payloads that carry several shapes at once
Section(title) == Obj(<< <<"title", Str(title)>>, <<"questions", Arr(<<CanonQuestion>>)>> >>)
WithSections(title) == Obj(<< <<"sections", Arr(<<Section(title)>>)>>, <<"marker", Str(title)>> >>)
Combo(se, su, rp, gq, pl, qu, sp, sP, da, re) ==
  MkObj(<< <<"sections", se>>, <<"survey", su>>, <<"rendered_pages", rp>>,
           <<"generated_questions", gq>>, <<"plan", pl>>, <<"questions", qu>>,
           <<"survey_plan", sp>>, <<"surveyPlan", sP>>, <<"data", da>>, <<"result", re>> >>)
ComboSections == {Absent, EmptyArr, Arr(<<Section("top")>>)}
ComboSurvey == {Absent, Survey(Str("S"), Arr(<<PageA>>))}
ComboRendered == {Absent, Arr(<<RPageA>>)}
ComboGenerated ==
  { Absent, EmptyObj, Obj(<< <<"rendered_pages", Arr(<<RPageB>>)>> >>),
    PageRecord(<<RPageA, RPageB>>) }
ComboPlan ==
  { Absent, Plan(Absent, Str("PT"), Arr(<<PPageSpecs>>)),
    Obj(<< <<"sections", Arr(<<Section("in plan")>>)>> >>) }
ComboQuestions == {Absent, Arr(<<CanonQuestion>>)}
ComboData ==
  { Absent, WithSections("in data"),
    Obj(<< <<"rendered_pages", Arr(<<RPageB>>)>>, <<"name", Str("DN")>> >>) }
ComboPayloads ==
  { Combo(se, su, rp, gq, pl, qu, sp, sP, da, re)
    : se \in ComboSections, su \in ComboSurvey, rp \in ComboRendered, gq \in ComboGenerated,
      pl \in ComboPlan, qu \in ComboQuestions,
      sp \in {Absent, WithSections("in survey_plan")},
      sP \in {Absent, WithSections("in surveyPlan")},
      da \in ComboData, re \in {Absent, WithSections("in result")} }

\* ---- one level of wrapping
WrapperKeys == {"data", "result", "survey_plan", "surveyPlan"}
WrappedPayloads ==
  { Combo(se, su, rp, gq, pl, qu, Absent, Absent, Absent, Absent)
    : se \in {Absent, Arr(<<Section("top")>>)}, su \in ComboSurvey,
      rp \in ComboRendered \cup {Arr(<<Null>>)},
      gq \in ComboGenerated \ {EmptyObj},
      pl \in {Absent, Plan(Absent, Str("PT"), Arr(<<PPageSpecs>>)),
              Plan(Absent, Absent, Arr(<<PPageBrief>>))},
      qu \in ComboQuestions }
Wrapped == {Obj(<< <<k, inner>> >>) : k \in WrapperKeys, inner \in WrappedPayloads}
  \cup { Obj(<< <<"data", Obj(<< <<"generated_questions", g>>, <<"suggestedName", Str("DS")>> >>)>>,
                <<"plan", Obj(<< <<"title", Str("PT")>> >>)>> >>)
         : g \in {Obj(<< <<"rendered_pages", Arr(<<RPageA>>)>> >>), PageRecord(<<RPageA>>), Str("g")} }

\* ---- values that no branch recognises
OddPayloads ==
  { Null, Undef, Str(""), Str("plan"), Num(0), Num(5), Bool(TRUE), Bool(FALSE),
    EmptyArr, Arr(<<WithSections("in array")>>), EmptyObj,
    Obj(<< <<"foo", Num(1)>> >>), Obj(<< <<"sections", Str("x")>> >>),
    Obj(<< <<"sections", EmptyObj>> >>),
    Obj(<< <<"survey", Str("s")>> >>), Obj(<< <<"survey", Obj(<< <<"pages", Str("x")>> >>)>> >>),
    Obj(<< <<"survey", Null>> >>), Obj(<< <<"rendered_pages", EmptyObj>> >>),
    Obj(<< <<"plan", Str("p")>> >>), Obj(<< <<"plan", Obj(<< <<"pages", Null>> >>)>> >>),
    Obj(<< <<"data", Null>> >>), Obj(<< <<"data", Obj(<< <<"sections", Str("x")>> >>)>> >>),
    Obj(<< <<"result", Num(3)>> >>), Obj(<< <<"survey_plan", EmptyObj>> >>),
    Obj(<< <<"detail", Str("Not Found")>> >>) }

Payloads ==
  SurveyPayloads \cup RenderedPayloads \cup GeneratedPayloads \cup PlanPayloads
  \cup BarePayloads \cup ComboPayloads \cup Wrapped \cup OddPayloads

\* ---- fields given to the bilingual helpers
MaxLen == 5
MaxFields == 2
Chars == {"A", "B", " ", "/"}
RECURSIVE StringsUpTo(_)
StringsUpTo(n) ==
  IF n = 0 THEN {""}
  ELSE StringsUpTo(n - 1) \cup {s \o c : s \in StringsUpTo(n - 1), c \in Chars}
TextParts == {Absent, Null, Str(""), Str("A"), Str("B"), Num(5)}
TextObjects == {MkObj(<< <<"en", e>>, <<"ar", a>> >>) : e \in TextParts, a \in TextParts}
SmallFields ==
  { Str("A / B"), Str("A"), Str("A / A"), Str(""), BiAB,
    Obj(<< <<"en", Str("A")>> >>), Null, Num(5) }
FieldArrays == {Arr(fs) : fs \in SeqsUpTo(SmallFields, MaxFields)}
FieldValues ==
  {Str(s) : s \in StringsUpTo(MaxLen)} \cup TextObjects \cup FieldArrays
  \cup {Null, Undef, Num(0), Num(5), Bool(TRUE), Bool(FALSE)}
\* the arguments of one call: the field and the user's language
Calls == {Arr(<<f, Str(l)>>) : f \in FieldValues, l \in {"en", "ar"}}
Field(call) == call.v[1]
Lang(call) == call.v[2].v


(***************************************************************************)
(* Prompt validation errors (unnamed/part_001 22-143)                      *)
(***************************************************************************)
\* ---- response bodies
ReasonCodeValues ==
  { Absent, Null, Str(""), Str("other"), Num(1),
    Str("too_short"), Str("gibberish"), Str("keyboard_walk"), Str("repetitive"),
    Str("unsupported"), Str("needs_clarification") }
MessageValues == {Absent, Null, Str(""), Str("Too short"), Num(5)}
SuggestedPromptValues == {Absent, Null, Str(""), Str("Try this"), Num(3), Bool(TRUE)}
DetailObjects ==
  { MkObj(<< <<"reason_code", rc>>, <<"message", m>>, <<"suggested_prompt", sp>> >>)
    : rc \in ReasonCodeValues, m \in MessageValues, sp \in SuggestedPromptValues }
DetailValues ==
  DetailObjects \cup {Absent, Null, Str("Not Found"), Num(0), EmptyArr,
                      Arr(<<Obj(<< <<"msg", Str("field required")>> >>)>>)}
JsonDocuments ==
  {MkObj(<< <<"detail", d>> >>) : d \in DetailValues}
  \cup {Null, Str("too_short"), Num(422), Bool(FALSE), EmptyArr,
        Obj(<< <<"reason_code", Str("too_short")>>, <<"message", Str("Too short")>> >>)}

\* JSON.stringify of a document: a member whose value is undefined is left out
IsDefinedMember(pair) == pair[2].t # "undefined"
RECURSIVE JSONStringify(_), JoinMembers(_), JoinElements(_)
JoinMembers(pairs) ==
  IF pairs = <<>> THEN ""
  ELSE (IF Len(pairs) > 1 THEN JoinMembers(SubSeq(pairs, 1, Len(pairs) - 1)) \o "," ELSE "")
       \o "\"" \o pairs[Len(pairs)][1] \o "\":" \o JSONStringify(pairs[Len(pairs)][2])
JoinElements(items) ==
  IF items = <<>> THEN ""
  ELSE (IF Len(items) > 1 THEN JoinElements(SubSeq(items, 1, Len(items) - 1)) \o "," ELSE "")
       \o JSONStringify(items[Len(items)])
JSONStringify(x) ==
  CASE x.t = "string" -> "\"" \o x.v \o "\""
    [] x.t = "number" -> ToString(x.v)
    [] x.t = "boolean" -> (IF x.v THEN "true" ELSE "false")
    [] x.t = "array" -> "[" \o JoinElements(x.v) \o "]"
    [] x.t = "object" -> "{" \o JoinMembers(SelectSeq(x.v, IsDefinedMember)) \o "}"
    [] OTHER -> "null"

\* texts that are no JSON document
MalformedTexts == {"Internal Server Error", "<html>", "{\"detail\":", "{detail: too_short}"}
ErrorTexts == {JSONStringify(doc) : doc \in JsonDocuments} \cup MalformedTexts \cup {""}

\* JSON.parse(text): the document the text spells, or a SyntaxError
JSONParse(text) ==
  IF \E doc \in JsonDocuments : JSONStringify(doc) = text
  THEN CHOOSE doc \in JsonDocuments : JSONStringify(doc) = text
  ELSE Thrown

\* part_001 65: HTTP 422 (Unprocessable Entity)
UnprocessableEntity == 422
Statuses == {200, 400, UnprocessableEntity, 500}

\* one reason code short
ValidReasonCodesButLast ==
  {Str("too_short"), Str("gibberish"), Str("keyboard_walk"), Str("repetitive"), Str("unsupported")}

\* part_001 83
validReasonCodes ==
  { Str("too_short"), Str("gibberish"), Str("keyboard_walk"), Str("repetitive"),
    Str("unsupported"), Str("needs_clarification") }

\* isPromptValidationError, part_001 60-100
isPromptValidationError(status, errorData) ==
  IF status # UnprocessableEntity THEN FALSE
  ELSE IF ~Truthy(errorData) \/ ~TypeofObject(errorData) THEN FALSE
  ELSE IF ~Truthy(Get(errorData, "detail")) \/ ~TypeofObject(Get(errorData, "detail")) THEN FALSE
  ELSE LET detail == Get(errorData, "detail") IN
       IF ~Truthy(Get(detail, "reason_code")) \/ Get(detail, "reason_code") \notin validReasonCodes
       THEN FALSE
       ELSE IF ~Truthy(Get(detail, "message")) \/ ~IsString(Get(detail, "message")) THEN FALSE
       ELSE IF /\ Get(detail, "suggested_prompt") # Null
               /\ Get(detail, "suggested_prompt") # Undef
               /\ ~IsString(Get(detail, "suggested_prompt"))
       THEN FALSE
       ELSE TRUE

\* class PromptValidationError, part_001 35-51: the error that is thrown
PromptValidationError(detail) ==
  [ t |-> "error",
    v |-> << <<"name", Str("PromptValidationError")>>,
             <<"message", Get(detail, "message")>>,
             <<"reasonCode", Get(detail, "reason_code")>>,
             <<"suggestedPrompt", Get(detail, "suggested_prompt")>>,
             <<"statusCode", Num(UnprocessableEntity)>> >> ]

\* handlePromptValidationError, part_001 115-143
handlePromptValidationError(status, errorText) ==
  IF status # UnprocessableEntity THEN Bool(FALSE)
  ELSE LET errorData == IF errorText # "" THEN JSONParse(errorText) ELSE Null IN
       IF IsThrown(errorData) THEN Bool(FALSE)
       ELSE IF ~isPromptValidationError(status, errorData) THEN Bool(FALSE)
       ELSE PromptValidationError(Get(errorData, "detail"))

\* the arguments of one call: the status and the response text
Responses == {Arr(<<Num(st), Str(text)>>) : st \in Statuses, text \in ErrorTexts}
Status(response) == response.v[1].v
ErrorText(response) == response.v[2].v

(***************************************************************************)
(* generateSurveyRules: normalisation of the parsed rules response         *)
(* (plannerBackend.ts 1305-1415)                                           *)
(***************************************************************************)
\* x?.[i] of an array
ItemAt(x, i) == IF IsArray(x) /\ Len(x.v) > i THEN x.v[i + 1] ELSE Undef

\* Array.prototype.join: null and undefined elements give the empty string
RECURSIVE Join(_, _)
Join(items, sep) ==
  IF Len(items) = 0 THEN ""
  ELSE LET head == IF Nullish(items[1]) THEN "" ELSE ToStr(items[1]) IN
       IF Len(items) = 1 THEN head
       ELSE head \o sep \o Join(Tail(items), sep)

\* (x || []).map(f): a truthy value that is not an array has no map method
MapOrEmpty(F(_), x) ==
  IF ~Truthy(x) THEN EmptyArr
  ELSE IF IsArray(x) THEN ArrOrThrown(Map(F, x.v))
  ELSE Thrown

RuleTypeOfLastAction(rule) ==
  LET then == OptGet(Get(rule, "if"), "then") IN
  Or(OptGet(ItemAt(then, IF IsArray(then) /\ Len(then.v) > 0
                     THEN Len(then.v) - 1 ELSE 0), "type"), Str("unknown"))

\* line 1324
ruleType(rule) ==
  Or(OptGet(ItemAt(OptGet(Get(rule, "if"), "then"), 0), "type"), Str("unknown"))

\* lines 1327-1339: one converted condition
Condition(cond) ==
  IF Nullish(cond) THEN Thrown
  ELSE Obj(<< <<"left_side",
                Obj(<< <<"type", Or(OptGet(Get(cond, "leftOperand"), "type"),
                                    Str("question"))>>,
                       <<"question_id",
                         Or(OptGet(Get(cond, "leftOperand"), "value"), Str(""))>>,
                       <<"data_type",
                         OptGet(Get(cond, "leftOperand"), "data_type")>> >>)>>,
              <<"operator", Or(Get(cond, "operator"), Str(""))>>,
              <<"right_side",
                Obj(<< <<"type", Or(OptGet(Get(cond, "rightOperand"), "type"),
                                    Str("value"))>>,
                       <<"value",
                         Or(OptGet(Get(cond, "rightOperand"), "value"), Str(""))>>,
                       <<"data_type",
                         OptGet(Get(cond, "rightOperand"), "data_type")>> >>)>> >>)

\* line 1327
conditions(rule) == MapOrEmpty(Condition, OptGet(Get(rule, "if"), "when"))

ActionElementTypeFirst(action) ==
  LET target == Get(action, "target") IN
  IF Truthy(OptGet(target, "type")) THEN Get(target, "type")
  ELSE IF Truthy(OptGet(target, "ids")) /\ IsArray(Get(target, "ids"))
  THEN Str(Join(Get(target, "ids").v, ", "))
  ELSE IF Truthy(OptGet(target, "ids")) THEN Get(target, "ids")
  ELSE Str("")

\* lines 1344-1351
actionElement(action) ==
  LET target == Get(action, "target") IN
  IF Truthy(OptGet(target, "ids")) /\ IsArray(Get(target, "ids"))
  THEN Str(Join(Get(target, "ids").v, ", "))
  ELSE IF Truthy(OptGet(target, "ids")) THEN Get(target, "ids")
  ELSE IF Truthy(OptGet(target, "type")) THEN Get(target, "type")
  ELSE Str("")

\* lines 1342-1361: one converted action
Action(action) ==
  IF Nullish(action) THEN Thrown
  ELSE Obj(<< <<"type", Or(Get(action, "type"), Str(""))>>,
              <<"action_element", actionElement(action)>>,
              <<"message_en", OptGet(Get(action, "message"), "en")>>,
              <<"message_ar", OptGet(Get(action, "message"), "ar")>>,
              <<"sequence", Get(action, "sequence")>>,
              <<"action_answer", Get(action, "action_answer")>> >>)

\* line 1342
actions(rule) == MapOrEmpty(Action, OptGet(Get(rule, "if"), "then"))

\* lines 1322-1373: one converted rule
ConvertedRule(rule) ==
  IF Nullish(rule) \/ IsThrown(conditions(rule)) \/ IsThrown(actions(rule))
  THEN Thrown
  ELSE Obj(<< <<"meta_rule",
                Obj(<< <<"rule_id", Or(Get(rule, "id"), Str(""))>>,
                       <<"rule_type", ruleType(rule)>>,
                       <<"description_en",
                         Or(OptGet(Get(rule, "description"), "en"), Str(""))>>,
                       <<"description_ar",
                         Or(OptGet(Get(rule, "description"), "ar"), Str(""))>> >>)>>,
              <<"conditions", conditions(rule)>>,
              <<"actions", actions(rule)>> >>)

\* line 1322
convertedRules(rulesArray) == ArrOrThrown(Map(ConvertedRule, rulesArray.v))

IsNestedRulesAnyValue(response) ==
  /\ Truthy(Get(response, "survey"))
  /\ Truthy(Get(Get(response, "survey"), "rules"))

\* line 1314
IsNestedRules(response) ==
  /\ Truthy(Get(response, "survey"))
  /\ Truthy(Get(Get(response, "survey"), "rules"))
  /\ IsArray(Get(Get(response, "survey"), "rules"))

\* lines 1316-1389: the nested form, converted
NestedRulesResponse(response, thread_id) ==
  LET survey == Get(response, "survey")
      threadId == Or(Or(Get(survey, "id"),
                        OptGet(Get(survey, "meta"), "thread_id")), thread_id)
      rulesArray == Get(survey, "rules")
  IN IF ~IsArray(rulesArray) \/ IsThrown(convertedRules(rulesArray))
     THEN Thrown
     ELSE Obj(<< <<"thread_id", threadId>>,
                 <<"rules",
                   Obj(<< <<"survey_rules", convertedRules(rulesArray)>> >>)>>,
                 <<"critique_summary", Undef>> >>)

\* lines 1392-1414: the flat form, passed through
LegacyRulesResponse(response, thread_id) ==
  LET data == Or(Get(response, "data"), response) IN
  IF ~Truthy(Get(data, "thread_id")) /\ ~Truthy(Get(response, "thread_id"))
  THEN Thrown
  ELSE IF ~Truthy(Get(data, "rules")) /\ ~Truthy(Get(response, "rules"))
  THEN Thrown
  ELSE Obj(<< <<"thread_id", Or(Or(Get(data, "thread_id"),
                                   Get(response, "thread_id")), thread_id)>>,
              <<"rules", Or(Get(data, "rules"), Get(response, "rules"))>>,
              <<"critique_summary", Or(Get(data, "critique_summary"),
                                       Get(response, "critique_summary"))>> >>)

\* lines 1306-1415: what generateSurveyRules makes of the parsed 2xx body
generateSurveyRules(finalJson, thread_id) ==
  IF ~Truthy(finalJson) \/ ~TypeofObject(finalJson) THEN Thrown
  ELSE IF IsNestedRules(finalJson)
  THEN NestedRulesResponse(finalJson, thread_id)
  ELSE LegacyRulesResponse(finalJson, thread_id)

(***************************************************************************)
(* Rules responses: the nested if/when/then form and the flat form         *)
(***************************************************************************)
MaxEntries == 2
MaxRules == 2

RightOperandValues ==
  {Absent, Num(0), Num(5), Bool(FALSE), Bool(TRUE), Str(""), Str("yes")}

SourceCondition(leftValue, operator, rightValue) ==
  MkObj(<< <<"leftOperand", MkObj(<< <<"type", Str("question")>>,
                                     <<"value", leftValue>> >>)>>,
           <<"operator", operator>>,
           <<"rightOperand", MkObj(<< <<"type", Str("value")>>,
                                      <<"value", rightValue>> >>)>> >>)

SourceConditions ==
  {SourceCondition(Str("q1"), Str("equals"), v) : v \in RightOperandValues}
    \cup {SourceCondition(l, o, Str("yes")) :
            l \in {Str("q2"), Absent}, o \in {Str("gt"), Absent}}
    \cup {EmptyObj}

SourceTargets ==
  {Obj(<< <<"type", Str("question")>>,
          <<"ids", Arr(<<Str("q1"), Str("q2")>>)>> >>),
   Obj(<< <<"ids", Arr(<<Str("q3")>>)>> >>),
   Obj(<< <<"type", Str("question")>>, <<"ids", EmptyArr>> >>),
   Obj(<< <<"type", Str("question")>>, <<"ids", Str("q4")>> >>),
   Obj(<< <<"type", Str("page")>> >>),
   EmptyObj,
   Absent}

SourceMessage == Obj(<< <<"en", Str("E")>>, <<"ar", Str("R")>> >>)

SourceAction(type, target, message) ==
  MkObj(<< <<"type", type>>, <<"target", target>>, <<"message", message>>,
           <<"sequence", Num(1)>> >>)

SourceActions ==
  {SourceAction(Str("show"), target, SourceMessage) : target \in SourceTargets}
    \cup {SourceAction(type, Obj(<< <<"ids", Arr(<<Str("q3")>>)>> >>), message) :
            type \in {Str("hide"), Absent}, message \in {SourceMessage, Absent}}

OneCondition == <<SourceCondition(Str("q1"), Str("equals"), Str("yes"))>>
OneAction == <<SourceAction(Str("show"), Obj(<< <<"ids", Arr(<<Str("q3")>>)>> >>),
                            SourceMessage)>>

SourceRule(id, when, then) ==
  MkObj(<< <<"id", id>>,
           <<"description", Obj(<< <<"en", Str("D")>>, <<"ar", Str("W")>> >>)>>,
           <<"if", MkObj(<< <<"when", when>>, <<"then", then>> >>)>> >>)

SmallRules ==
  {SourceRule(Str("r1"), Arr(OneCondition), Arr(OneAction)),
   SourceRule(Str("r2"), Arr(OneCondition),
              Arr(<<SourceAction(Absent, Absent, Absent)>> \o OneAction)),
   Obj(<< <<"id", Str("r3")>> >>)}

SourceRules ==
  {SourceRule(Str("r1"), Arr(when), Arr(OneAction)) :
     when \in SeqsUpTo(SourceConditions, MaxEntries)}
    \cup {SourceRule(Str("r1"), Arr(OneCondition), Arr(then)) :
            then \in SeqsUpTo(SourceActions, MaxEntries)}
    \cup {SourceRule(Absent, when, then) :
            when \in {Absent, Arr(OneCondition)},
            then \in {Absent, Arr(OneAction)}}
    \cup SmallRules

RuleLists ==
  {<<rule>> : rule \in SourceRules} \cup SeqsUpTo(SmallRules, MaxRules)

NestedSurvey(id, meta, rules) ==
  MkObj(<< <<"id", id>>, <<"rules", rules>>, <<"meta", meta>> >>)

NestedResponses ==
  {Obj(<< <<"timestamp", Str("now")>>,
          <<"survey", NestedSurvey(Str("s1"), Absent, Arr(rules))>> >>) :
     rules \in RuleLists}
    \cup {Obj(<< <<"survey", NestedSurvey(id, meta, Arr(OneRule))>> >>) :
            id \in {Str("s1"), Absent},
            meta \in {Obj(<< <<"thread_id", Str("m1")>> >>), EmptyObj, Absent},
            OneRule \in {<<rule>> : rule \in SmallRules}}

FlatRule ==
  Obj(<< <<"meta_rule", Obj(<< <<"rule_id", Str("r1")>>,
                               <<"rule_type", Str("show")>>,
                               <<"description_en", Str("D")>>,
                               <<"description_ar", Str("W")>> >>)>>,
         <<"conditions", EmptyArr>>,
         <<"actions", EmptyArr>> >>)

FlatRuleSets ==
  {Obj(<< <<"survey_rules", Arr(rules)>> >>) :
     rules \in SeqsUpTo({FlatRule}, MaxRules)}

FlatBodies ==
  {MkObj(<< <<"thread_id", threadId>>, <<"rules", rules>>,
            <<"critique_summary", critique>>, <<"survey", survey>> >>) :
     threadId \in {Str("t1"), Absent},
     rules \in FlatRuleSets \cup {Absent},
     critique \in {Str("fine"), Absent},
     survey \in {Absent, Obj(<< <<"id", Str("s1")>> >>),
                 Obj(<< <<"rules", Obj(<< <<"survey_rules", EmptyArr>> >>)>> >>)}}

FlatResponses ==
  FlatBodies
    \cup {Obj(<< <<"data", body>> >>) : body \in FlatBodies}
    \cup {MkObj(<< <<"thread_id", Str("t0")>>, <<"data", body>> >>) :
            body \in FlatBodies}

OddRulesResponses == {Null, Str("ok"), Num(0), EmptyArr, EmptyObj}

RulesResponses == NestedResponses \cup FlatResponses \cup OddRulesResponses

\* the thread_id argument of the call
ThreadIds == {Str("arg")}

RulesCalls == {Arr(<<json, id>>) : json \in RulesResponses, id \in ThreadIds}
FinalJson(call) == call.v[1]
ThreadIdArg(call) == call.v[2]

(***************************************************************************)
(* rejectSurveyPlan (plannerBackend.ts 694-820): the candidate URLs are    *)
(* posted to in turn; `answers` holds what the server answers to each.     *)
(***************************************************************************)
MaxUrls == 3

\* the candidate URLs once duplicates are dropped (lines 705-712)
CandidateUrls == <<"/api/plan", "/api/plan/", "/anomaly/api/plan", "/anomaly/api/plan/">>
candidateUrls(n) == SubSeq(CandidateUrls, 1, n)
RECURSIVE JoinStrings(_, _)
JoinStrings(items, sep) ==
  IF Len(items) = 0 THEN ""
  ELSE IF Len(items) = 1 THEN items[1]
  ELSE items[1] \o sep \o JoinStrings(Tail(items), sep)

NotFound == 404
BadRequest == 400
\* res.ok
Ok(status) == status >= 200 /\ status <= 299
\* res.statusText
StatusText(status) ==
  CASE status = BadRequest -> "Bad Request"
    [] status = NotFound -> "Not Found"
    [] status = UnprocessableEntity -> "Unprocessable Entity"
    [] status = 200 -> "OK"
    [] OTHER -> "Internal Server Error"

\* new Error(message)
ErrorOf(message) ==
  [t |-> "error", v |-> << <<"name", Str("Error")>>, <<"message", Str(message)>> >>]
IsError(x) == x.t = "error"
IsUndefined(x) == x.t = "undefined"
\* error.k
FieldOfError(x, k) ==
  IF IsError(x) /\ \E i \in 1..Len(x.v) : x.v[i][1] = k
  THEN x.v[CHOOSE i \in 1..Len(x.v) : x.v[i][1] = k][2] ELSE Undef

\* JSON.parse(text) of a text the server can send, or a SyntaxError
ParseAmong(documents, text) ==
  IF \E doc \in documents : JSONStringify(doc) = text
  THEN CHOOSE doc \in documents : JSONStringify(doc) = text
  ELSE Thrown

\* ---- bodies of the reject endpoint
MaxAttemptsDetails ==
  {MkObj(<< <<"error_code", code>>, <<"message", message>>,
            <<"thread_id", Str("t1")>>, <<"current_attempt", Num(3)>>,
            <<"max_attempts", Num(3)>> >>) :
     code \in {Str("MAX_PLAN_ATTEMPTS_REACHED"), Str("PLAN_NOT_FOUND"), Absent},
     message \in {Str("Maximum attempts reached"), Absent}}
RejectedPlan == Obj(<< <<"title", Str("Plan")>>, <<"pages", EmptyArr>> >>)
RejectBodies ==
  {MkObj(<< <<"thread_id", threadId>>, <<"plan", plan>>,
            <<"approval_status", Str("awaiting_approval")>>,
            <<"attempt", attempt>>, <<"version", Num(2)>> >>) :
     threadId \in {Str("t1"), Absent}, plan \in {RejectedPlan, Absent},
     attempt \in {Num(2), Num(0), Absent}}
RejectDocuments ==
  {Obj(<< <<"detail", detail>> >>) :
     detail \in MaxAttemptsDetails \cup {Str("Not Found"), Null}}
    \cup RejectBodies
    \cup {Obj(<< <<"data", body>> >>) : body \in RejectBodies}
    \cup {Null, Str("ok"), EmptyObj}
RejectTexts ==
  {JSONStringify(doc) : doc \in RejectDocuments} \cup MalformedTexts \cup {""}
RejectStatuses == {200, BadRequest, NotFound, UnprocessableEntity, 500}
Answer(status, text) == Arr(<<Num(status), Str(text)>>)
NotFoundAnswer == Answer(NotFound, "{\"detail\":\"Not Found\"}")
\* the answers of the candidate URLs of one call: the URLs before the
\* deciding one answer 404
RejectAnswers ==
  {Arr([i \in 1..k |-> NotFoundAnswer] \o <<Answer(status, text)>>) :
     k \in 0..(MaxUrls - 1), status \in RejectStatuses, text \in RejectTexts}

\* lines 738-749: what the body of the `try` throws, undefined when it
\* runs to its end
RejectTryThrows(text) ==
  LET errorData == ParseAmong(RejectDocuments, text) IN
  IF IsThrown(errorData) \/ Nullish(errorData) THEN Thrown
  ELSE LET detail == Get(errorData, "detail") IN
       IF OptGet(detail, "error_code") = Str("MAX_PLAN_ATTEMPTS_REACHED")
       THEN [t |-> "error",
             v |-> << <<"name", Str("Error")>>,
                      <<"message", Or(Get(detail, "message"),
                                      Str("Maximum plan attempts reached"))>>,
                      <<"errorCode", Str("MAX_PLAN_ATTEMPTS_REACHED")>>,
                      <<"threadId", Get(detail, "thread_id")>>,
                      <<"currentAttempt", Get(detail, "current_attempt")>>,
                      <<"maxAttempts", Get(detail, "max_attempts")>> >>]
       ELSE Undef

\* lines 750-752: the `catch` clause is empty, so whatever the `try` threw,
\* the error built at line 742 included, ends there
RejectCatch(thrown) == Undef

\* lines 731-756: the error a failed answer (not ok, not 404) raises
RejectFailure(status, text) ==
  LET escaped == IF status = BadRequest
                 THEN RejectCatch(RejectTryThrows(text)) ELSE Undef
  IN IF IsError(escaped) THEN escaped
     ELSE ErrorOf("Planner API error (" \o ToString(status) \o "). "
                  \o (IF text # "" THEN text ELSE StatusText(status)))

\* lines 776-818: the parsed body, normalised
RejectNormalised(finalJson) ==
  IF ~Truthy(finalJson) \/ ~TypeofObject(finalJson)
  THEN ErrorOf("Planner API returned invalid response")
  ELSE LET response == finalJson
           data == Or(Get(response, "data"), response)
           threadId == Or(Get(data, "thread_id"), Get(response, "thread_id"))
           plan == Or(Get(data, "plan"), Get(response, "plan"))
           approvalStatus == Or(Get(data, "approval_status"),
                                Get(response, "approval_status"))
           attempt == IF ~IsUndefined(Get(data, "attempt"))
                      THEN Get(data, "attempt") ELSE Get(response, "attempt")
           version == IF ~IsUndefined(Get(data, "version"))
                      THEN Get(data, "version") ELSE Get(response, "version")
       IN IF ~Truthy(threadId) THEN ErrorOf("Response does not contain thread_id")
          ELSE IF ~Truthy(plan) THEN ErrorOf("Response does not contain plan")
          ELSE IF IsUndefined(approvalStatus) \/ IsUndefined(attempt) \/ IsUndefined(version)
          THEN ErrorOf("Response missing required fields (approval_status, attempt, or version)")
          ELSE Obj(<< <<"meta", Get(response, "meta")>>,
                      <<"status",
                        Or(Get(response, "status"),
                           Obj(<< <<"code", Str("success")>>,
                                  <<"message",
                                    Str("Plan rejected and regenerated successfully")>> >>))>>,
                      <<"thread_id", threadId>>,
                      <<"plan", plan>>,
                      <<"approval_status", approvalStatus>>,
                      <<"attempt", attempt>>,
                      <<"version", version>>,
                      <<"generated_questions",
                        Or(Get(data, "generated_questions"),
                           Get(response, "generated_questions"))>> >>)

\* lines 725-767 from the i-th candidate URL on, then 769-820
RECURSIVE RejectFrom(_, _)
RejectFrom(answers, i) ==
  IF i > Len(answers)
  THEN ErrorOf("Planner API error (404). The endpoint was not found. Tried: "
               \o JoinStrings(candidateUrls(Len(answers)), ", "))
  ELSE LET status == Status(answers[i])
           text == ErrorText(answers[i])
       IN IF ~Ok(status)
          THEN IF status = NotFound THEN RejectFrom(answers, i + 1)
               ELSE RejectFailure(status, text)
          ELSE LET finalJson == IF text # "" THEN ParseAmong(RejectDocuments, text)
                                ELSE Null
               IN IF IsThrown(finalJson)
                  THEN ErrorOf("Planner API returned a non-JSON response.")
                  ELSE RejectNormalised(finalJson)

\* rejectSurveyPlan: the value returned or the error thrown
rejectSurveyPlan(answers) == RejectFrom(answers, 1)

(***************************************************************************)
(* The strict response schema api.ai.generate.responses[200]               *)
(* (unnamed/part_003 292-311)                                              *)
(***************************************************************************)
\* .optional(): undefined passes
OptionalString(x) == IsUndefined(x) \/ IsString(x)
OptionalBoolean(x) == IsUndefined(x) \/ x.t = "boolean"
\* z.record(z.any()).optional()
OptionalRecord(x) == IsUndefined(x) \/ x.t = "object"
\* z.array(z.string()).optional()
OptionalStrings(x) ==
  IsUndefined(x) \/ (IsArray(x) /\ \A i \in 1..Len(x.v) : IsString(x.v[i]))

\* z.string() accepts a text of any type
QuestionSchemaAnyText(q) ==
  /\ q.t = "object"
  /\ IsString(Get(q, "type"))
  /\ OptionalStrings(Get(q, "options"))

\* lines 295-307: one question
QuestionSchema(q) ==
  /\ q.t = "object"
  /\ IsString(Get(q, "text"))
  /\ IsString(Get(q, "type"))
  /\ OptionalStrings(Get(q, "options"))
  /\ OptionalString(Get(q, "spec_id"))
  /\ OptionalBoolean(Get(q, "required"))
  /\ OptionalRecord(Get(q, "validation"))
  /\ OptionalRecord(Get(q, "skip_logic"))
  /\ OptionalRecord(Get(q, "scale"))

\* lines 293-308: one section
SectionSchema(section) ==
  /\ section.t = "object"
  /\ IsString(Get(section, "title"))
  /\ IsArray(Get(section, "questions"))
  /\ \A i \in 1..Len(Get(section, "questions").v) :
       QuestionSchema(Get(section, "questions").v[i])

\* lines 292-310: does the schema accept the candidate
ResponseSchema(candidate) ==
  /\ candidate.t = "object"
  /\ IsArray(Get(candidate, "sections"))
  /\ \A i \in 1..Len(Get(candidate, "sections").v) :
       SectionSchema(Get(candidate, "sections").v[i])
  /\ OptionalString(Get(candidate, "suggestedName"))

\* z.object keeps the keys of its shape, in the order of the shape
RECURSIVE KeepKeys(_, _)
KeepKeys(x, keys) ==
  IF Len(keys) = 0 THEN <<>>
  ELSE (IF HasKey(x, keys[1]) THEN << <<keys[1], Get(x, keys[1])>> >> ELSE <<>>)
       \o KeepKeys(x, Tail(keys))
ParsedQuestion(q) ==
  Obj(KeepKeys(q, <<"text", "type", "options", "spec_id", "required",
                    "validation", "skip_logic", "scale">>))
ParsedSection(section) ==
  Obj(<< <<"title", Get(section, "title")>>,
         <<"questions", Arr(Map(ParsedQuestion, Get(section, "questions").v))>> >>)
\* responses[200].parse(candidate): the parsed value, or a ZodError
ResponseParse(candidate) ==
  IF ~ResponseSchema(candidate) THEN Thrown
  ELSE Obj(<< <<"sections", Arr(Map(ParsedSection, Get(candidate, "sections").v))>> >>
           \o KeepKeys(candidate, <<"suggestedName">>))

(***************************************************************************)
(* postSurveyPlanFast (anomalyBackend.ts 343-467) and createSurveyPlan     *)
(* (plannerBackend.ts 59-138): what one answer of a candidate URL leads to *)
(***************************************************************************)
\* String.prototype.substring(0, n)
Substring(s, n) == SubSeq(s, 1, IF Len(s) < n THEN Len(s) ELSE n)
DumpLimit == 200
StructureLimit == 500

\* the answer was a 404: the loop goes on to the next candidate URL
Continue == [t |-> "continue"]
IsContinue(x) == x.t = "continue"

\* ---- bodies the two endpoints can answer with
FastLabels == {Str("Q"), BiAB}
FastOptionLists ==
  {Absent, Arr(<<Obj(<< <<"label", Str("Yes")>> >>)>>),
   Arr(<<Obj(<< <<"label", Str("Yes")>> >>), Obj(<< <<"label", BiAB>> >>)>>)}
FastControl(label, options) ==
  MkObj(<< <<"id", Str("c1")>>, <<"type", Str("radio")>>, <<"label", label>>,
           <<"props", MkObj(<< <<"options", options>> >>)>> >>)
FastControls == {FastControl(l, o) : l \in FastLabels, o \in FastOptionLists}
FastPage(controls) == Obj(<< <<"name", Str("P")>>, <<"controls", Arr(controls)>> >>)
FastPages ==
  {FastPage(<<c>>) : c \in FastControls}
    \cup {FastPage(<<>>),
          FastPage(<<FastControl(BiAB, Absent), FastControl(BiAB, Absent)>>)}
PlainPage == FastPage(<<FastControl(Str("Q"), Absent)>>)
FastSurvey(id, pages) ==
  Obj(<< <<"survey", MkObj(<< <<"id", id>>, <<"title", Str("S")>>,
                              <<"pages", Arr(pages)>> >>)>> >>)
FastSurveys ==
  {FastSurvey(Str("th1"), <<page>>) : page \in FastPages}
    \cup {FastSurvey(id, pages) :
            id \in {Str("th1"), Absent},
            pages \in {<<>>, <<PlainPage, PlainPage>>}}
CanonicalQuestion(text) == Obj(<< <<"text", text>>, <<"type", Str("text")>>,
                                  <<"extra", Num(1)>> >>)
CanonicalPlans ==
  {Obj(<< <<"sections",
            Arr(<<Obj(<< <<"title", Str("T")>>,
                         <<"questions", Arr(<<CanonicalQuestion(text)>>)>> >>)>>)>>,
          <<"thread_id", Str("th2")>> >>) : text \in {Str("Q"), Num(5)}}
CreateBodies ==
  {Obj(<< <<"data", Obj(<< <<"thread_id", Str("th3")>>,
                           <<"message", Str("created")>> >>)>> >>),
   Obj(<< <<"thread_id", Str("th4")>> >>),
   Obj(<< <<"data", Str("th5")>> >>),
   Obj(<< <<"data", EmptyObj>> >>)}
BackendDocuments ==
  FastSurveys \cup CanonicalPlans \cup CreateBodies
    \cup {Obj(<< <<"survey", Obj(<< <<"pages", Arr(<<Null>>)>> >>)>> >>),
          Obj(<< <<"detail", Str("Not Found")>> >>),
          Null, Str("ok"), EmptyObj, EmptyArr}
BackendTexts ==
  {JSONStringify(doc) : doc \in BackendDocuments} \cup MalformedTexts \cup {""}
\* bodies of a failed answer
TooShortText ==
  JSONStringify(Obj(<< <<"detail",
                         Obj(<< <<"reason_code", Str("too_short")>>,
                                <<"message", Str("Too short")>>,
                                <<"suggested_prompt", Str("Try this")>> >>)>> >>))
FailureTexts == {TooShortText, "Internal Server Error", "", "{\"detail\":\"Not Found\"}"}
DecidingAnswers ==
  {Answer(200, text) : text \in BackendTexts}
    \cup {Answer(status, text) :
            status \in {BadRequest, UnprocessableEntity, 500}, text \in FailureTexts}
    \cup {NotFoundAnswer}
\* answers of the candidate URLs that come after the deciding one
LaterAnswers ==
  {NotFoundAnswer, Answer(200, JSONStringify(FastSurvey(Str("th1"), <<PlainPage>>))),
   Answer(500, "")}
\* the answers of the candidate URLs of one call: 404s up to the deciding
\* answer, anything after it
AnswerLists ==
  UNION {{Arr([i \in 1..k |-> NotFoundAnswer] \o <<answer>> \o later) :
            answer \in DecidingAnswers,
            later \in SeqsUpTo(LaterAnswers, MaxUrls - 1 - k)} :
         k \in 0..(MaxUrls - 1)}

\* anomalyBackend.ts 420-435
FastThreadId(finalJson) ==
  IF Truthy(finalJson) /\ TypeofObject(finalJson)
  THEN IF Truthy(OptGet(Get(finalJson, "survey"), "id"))
       THEN Get(Get(finalJson, "survey"), "id")
       ELSE IF Truthy(OptGet(OptGet(Get(finalJson, "survey"), "meta"), "thread_id"))
       THEN Get(Get(Get(finalJson, "survey"), "meta"), "thread_id")
       ELSE IF Truthy(Get(finalJson, "thread_id")) THEN Get(finalJson, "thread_id")
       ELSE Undef
  ELSE Undef

\* anomalyBackend.ts 463, the back quotes of the source written as quotes
FormatMismatch ==
  "Anomaly backend response does not match the expected survey plan format (missing or invalid 'sections'). Received: "

\* the whole serialization is put in the message
FormatErrorUnbounded(candidate) ==
  ErrorOf(FormatMismatch \o JSONStringify(candidate) \o "...")

\* anomalyBackend.ts 462-464
FormatError(candidate) ==
  ErrorOf(FormatMismatch \o Substring(JSONStringify(candidate), DumpLimit) \o "...")

\* anomalyBackend.ts 437-466: the parsed body is normalised and validated
PostFastFinish(finalJson) ==
  LET threadId == FastThreadId(finalJson)
      candidate == extractPlanCandidate(finalJson)
  IN IF IsThrown(candidate) THEN Thrown
     ELSE LET parsed == ResponseParse(candidate) IN
          IF IsThrown(parsed) THEN FormatError(candidate)
          ELSE IF Truthy(threadId)
          THEN Obj(parsed.v \o << <<"thread_id", threadId>> >>)
          ELSE parsed

\* every failed answer, not only a 404, sends the loop on to the next URL
PostFastAnswerRetryAll(status, text, i, n) ==
  IF ~Ok(status)
  THEN IF i < n THEN Continue
       ELSE ErrorOf("Anomaly backend error (404). The endpoint was not found. Tried: "
                    \o JoinStrings(candidateUrls(n), ", "))
  ELSE LET finalJson == IF text # "" THEN ParseAmong(BackendDocuments, text) ELSE Null IN
       IF IsThrown(finalJson)
       THEN ErrorOf("Anomaly backend returned a non-JSON response.")
       ELSE PostFastFinish(finalJson)

\* anomalyBackend.ts 383-407 and 410-417: what the answer of the i-th of n
\* candidate URLs leads to
PostFastAnswer(status, text, i, n) ==
  IF ~Ok(status)
  THEN IF status = NotFound
       THEN IF i < n THEN Continue
            ELSE ErrorOf("Anomaly backend error (404). The endpoint was not found. Tried: "
                         \o JoinStrings(candidateUrls(n), ", "))
       ELSE LET classified == handlePromptValidationError(status, text) IN
            IF IsError(classified) THEN classified
            ELSE ErrorOf("Anomaly backend error (" \o ToString(status) \o "). "
                         \o (IF text # "" THEN text ELSE StatusText(status)))
  ELSE LET finalJson == IF text # "" THEN ParseAmong(BackendDocuments, text) ELSE Null IN
       IF IsThrown(finalJson)
       THEN ErrorOf("Anomaly backend returned a non-JSON response.")
       ELSE PostFastFinish(finalJson)

\* plannerBackend.ts 119-137
CreateFinish(finalJson) ==
  LET isObject == Truthy(finalJson) /\ TypeofObject(finalJson)
      fromData == IF isObject THEN OptGet(Get(finalJson, "data"), "thread_id") ELSE Undef
      fromRoot == IF isObject /\ ~Truthy(fromData)
                  THEN Get(finalJson, "thread_id") ELSE fromData
      threadId == IF isObject /\ ~Truthy(fromRoot) /\ IsString(Get(finalJson, "data"))
                  THEN Get(finalJson, "data") ELSE fromRoot
  IN IF ~Truthy(threadId)
     THEN ErrorOf("Planner API response does not contain thread_id. Response structure: "
                  \o Substring(JSONStringify(finalJson), StructureLimit) \o "...")
     ELSE Obj(<< <<"meta", OptGet(finalJson, "meta")>>,
                 <<"status",
                   Or(OptGet(finalJson, "status"),
                      Obj(<< <<"code", Str("success")>>,
                             <<"message", Str("Plan created successfully")>> >>))>>,
                 <<"thread_id", threadId>>,
                 <<"message", Or(OptGet(OptGet(finalJson, "data"), "message"),
                                 OptGet(finalJson, "message"))>> >>)

\* plannerBackend.ts 89-115: what the answer of the i-th of n candidate URLs
\* leads to
CreateAnswer(status, text, i, n) ==
  IF ~Ok(status)
  THEN IF status = NotFound
       THEN IF i < n THEN Continue
            ELSE ErrorOf("Planner API error (404). The endpoint was not found. Tried: "
                         \o JoinStrings(candidateUrls(n), ", "))
       ELSE ErrorOf("Planner API error (" \o ToString(status) \o "). "
                    \o (IF text # "" THEN text ELSE StatusText(status)))
  ELSE LET finalJson == IF text # "" THEN ParseAmong(BackendDocuments, text) ELSE Null IN
       IF IsThrown(finalJson)
       THEN ErrorOf("Planner API returned a non-JSON response.")
       ELSE CreateFinish(finalJson)

(***************************************************************************)
(* The generate handlers of the pages: ConfigPage.tsx handleGenerate       *)
(* (179-409) and the rules page's handleGenerateRules (anomalyBackend.ts   *)
(* 614-671).  The page state is an object of the state variables the       *)
(* handlers set, and of `error`, the error the mutation hook keeps of a    *)
(* failed call; the hooks hand on what the backend function returns or     *)
(* throws.                                                                 *)
(***************************************************************************)
\* the page state with one state variable set
SetState(ui, key, value) ==
  Obj([i \in 1..Len(ui.v) |->
         IF ui.v[i][1] = key THEN <<key, value>> ELSE ui.v[i]])

\* error instanceof PromptValidationError
IsPromptValidationError(error) ==
  IsError(error) /\ FieldOfError(error, "name") = Str("PromptValidationError")

\* the suggestion is written over the prompt whatever the error
PrefillAlways(ui, key, error) ==
  SetState(ui, key, FieldOfError(error, "suggestedPrompt"))

\* ConfigPage.tsx 238-243, 363-368; anomalyBackend.ts 656-661
Prefill(ui, key, error) ==
  IF IsPromptValidationError(error) /\ Truthy(FieldOfError(error, "suggestedPrompt"))
  THEN SetState(ui, key, FieldOfError(error, "suggestedPrompt"))
  ELSE ui

\* the call failed: an error was thrown
Failed(outcome) == IsError(outcome) \/ IsThrown(outcome)

\* ConfigPage.tsx 359-404: generateSurveyFast has settled
AfterGenerateFast(ui, outcome) ==
  IF Failed(outcome) THEN SetState(Prefill(ui, "aiPrompt", outcome), "error", outcome)
  ELSE IF \/ ~Truthy(outcome) \/ ~Truthy(Get(outcome, "sections"))
          \/ ~IsArray(Get(outcome, "sections"))
          \/ Len(Get(outcome, "sections").v) = 0
  THEN ui
  ELSE SetState(ui, "location", Str("/builder/1"))

\* ConfigPage.tsx 234-256: createSurveyPlan has settled
AfterCreatePlan(ui, outcome) ==
  IF Failed(outcome) THEN SetState(Prefill(ui, "aiPrompt", outcome), "error", outcome)
  ELSE IF ~Truthy(Get(outcome, "thread_id")) THEN ui
  ELSE SetState(ui, "threadId", Get(outcome, "thread_id"))

\* anomalyBackend.ts 652-669: generateRules has settled
AfterGenerateRules(ui, outcome) ==
  IF Failed(outcome)
  THEN SetState(SetState(Prefill(ui, "ruleRequirements", outcome),
                         "generatedRules", Null), "error", outcome)
  ELSE SetState(ui, "generatedRules", outcome)

\* ---- what the rules endpoint answers
RulesDocuments ==
  {Obj(<< <<"thread_id", Str("t1")>>,
          <<"rules", Obj(<< <<"survey_rules", Arr(<<FlatRule>>)>> >>)>> >>),
   Obj(<< <<"rules", Obj(<< <<"survey_rules", EmptyArr>> >>)>> >>)}

\* plannerBackend.ts 1176-1296: what the answer of the rules endpoint leads
\* to; the messages of the errors other than PromptValidationError are
\* left out
RulesAnswer(status, text, thread_id) ==
  IF ~Ok(status)
  THEN IF status = UnprocessableEntity
       THEN LET classified == handlePromptValidationError(status, text) IN
            IF text # "" /\ IsThrown(JSONParse(text))
            THEN [t |-> "error",
                  v |-> << <<"name", Str("RulesGenerationValidationError")>> >>]
            ELSE IF IsError(classified) THEN classified
            ELSE [t |-> "error",
                  v |-> << <<"name", Str("RulesGenerationValidationError")>> >>]
       ELSE [t |-> "error", v |-> << <<"name", Str("Error")>> >>]
  ELSE LET finalJson == IF text # "" THEN ParseAmong(RulesDocuments, text) ELSE Null IN
       IF IsThrown(finalJson)
       THEN ErrorOf("Rules generation API returned a non-JSON response.")
       ELSE generateSurveyRules(finalJson, thread_id)

\* ---- the page before the click and the answer the backend will give
PromptDetails ==
  {MkObj(<< <<"reason_code", rc>>, <<"message", m>>, <<"suggested_prompt", sp>> >>) :
     rc \in {Str("too_short"), Str("other")}, m \in {Str("Too short"), Absent},
     sp \in SuggestedPromptValues}
PromptAnswers ==
  {Answer(UnprocessableEntity, JSONStringify(Obj(<< <<"detail", d>> >>))) :
     d \in PromptDetails}
    \cup {Answer(200, JSONStringify(doc)) :
            doc \in RulesDocuments
                      \cup {FastSurvey(Str("th1"), <<PlainPage>>),
                            FastSurvey(Str("th1"), <<>>),
                            Obj(<< <<"thread_id", Str("th4")>> >>)}}
    \cup {Answer(UnprocessableEntity, "<html>"), Answer(500, ""),
          Answer(BadRequest, "{\"detail\":\"Not Found\"}"), Answer(200, "<html>")}
PromptsBefore == {Str("hi"), Str(" ")}
RulesBefore == {Null, Obj(<< <<"survey_rules", Arr(<<FlatRule>>)>> >>)}
PageVisits ==
  {Arr(<<prompt, rules, answer>>) :
     prompt \in PromptsBefore, rules \in RulesBefore, answer \in PromptAnswers}
PromptBefore(visit) == visit.v[1]
GeneratedBefore(visit) == visit.v[2]
AnswerOf(visit) == visit.v[3]
\* the state of the page when the button is clicked
PageState(visit) ==
  Obj(<< <<"aiPrompt", PromptBefore(visit)>>,
         <<"ruleRequirements", PromptBefore(visit)>>,
         <<"currentStep", Str("ai-config")>>,
         <<"location", Str("/config")>>,
         <<"threadId", Str("t1")>>,
         <<"generatedRules", GeneratedBefore(visit)>>,
         <<"error", Null>> >>)

(***************************************************************************)
(* The state machine: one payload is received and one function applied.    *)
(***************************************************************************)
Init ==
  /\ raw \in Payloads
  /\ pc = "input"
  /\ fn = "none"
  /\ result = Undef

\* anomalyBackend.ts 439: const candidate = extractPlanCandidate(finalJson)
ExtractPlanCandidate ==
  /\ pc = "input"
  /\ result' = extractPlanCandidate(raw)
  /\ fn' = "extractPlanCandidate"
  /\ pc' = "done"
  /\ UNCHANGED raw

\* plannerBackend.ts 541-558: if (response.survey) convertSurveyToRenderedPages(response.survey)
ConvertSurveyToRenderedPages ==
  /\ pc = "input"
  /\ Truthy(raw) /\ TypeofObject(raw)
  /\ Truthy(Get(raw, "survey"))
  /\ result' = convertSurveyToRenderedPages(Get(raw, "survey"))
  /\ fn' = "convertSurveyToRenderedPages"
  /\ pc' = "done"
  /\ UNCHANGED raw

\* ConfigPage.tsx 265-317: the accepted plan is transformed and saved
HandleGenerate ==
  /\ pc = "input"
  /\ HasPlanPages(raw)
  /\ result' = transformedPlan(raw)
  /\ fn' = "handleGenerate"
  /\ pc' = "done"
  /\ UNCHANGED raw

Next == ExtractPlanCandidate \/ ConvertSurveyToRenderedPages \/ HandleGenerate

Spec == Init /\ [][Next]_vars


(***************************************************************************)
(* The bilingual helpers, each applied to one field                        *)
(***************************************************************************)
BilingualInit ==
  /\ raw \in Calls
  /\ pc = "input"
  /\ fn = "none"
  /\ result = Undef

GetText ==
  /\ pc = "input"
  /\ result' = getText(Field(raw), Lang(raw))
  /\ fn' = "getText"
  /\ pc' = "done"
  /\ UNCHANGED raw

GetBothLanguages ==
  /\ pc = "input"
  /\ result' = getBothLanguages(Field(raw))
  /\ fn' = "getBothLanguages"
  /\ pc' = "done"
  /\ UNCHANGED raw

GetTextArray ==
  /\ pc = "input"
  /\ result' = getTextArray(Field(raw), Lang(raw))
  /\ fn' = "getTextArray"
  /\ pc' = "done"
  /\ UNCHANGED raw

GetBothLanguagesArray ==
  /\ pc = "input"
  /\ result' = getBothLanguagesArray(Field(raw))
  /\ fn' = "getBothLanguagesArray"
  /\ pc' = "done"
  /\ UNCHANGED raw

BilingualNext == GetText \/ GetBothLanguages \/ GetTextArray \/ GetBothLanguagesArray

BilingualSpec == BilingualInit /\ [][BilingualNext]_vars


(***************************************************************************)
(* The classifier applied to one failed response                           *)
(* (anomalyBackend.ts 394, plannerBackend.ts 1197)                         *)
(***************************************************************************)
ClassifierInit ==
  /\ raw \in Responses
  /\ pc = "input"
  /\ fn = "none"
  /\ result = Undef

HandlePromptValidationError ==
  /\ pc = "input"
  /\ result' = handlePromptValidationError(Status(raw), ErrorText(raw))
  /\ fn' = "handlePromptValidationError"
  /\ pc' = "done"
  /\ UNCHANGED raw

ClassifierNext == HandlePromptValidationError

ClassifierSpec == ClassifierInit /\ [][ClassifierNext]_vars


(***************************************************************************)
(* generateSurveyRules applied to one parsed 2xx body                      *)
(* (plannerBackend.ts 1286-1415)                                           *)
(***************************************************************************)
RulesInit ==
  /\ raw \in RulesCalls
  /\ pc = "input"
  /\ fn = "none"
  /\ result = Undef

GenerateSurveyRules ==
  /\ pc = "input"
  /\ result' = generateSurveyRules(FinalJson(raw), ThreadIdArg(raw))
  /\ fn' = "generateSurveyRules"
  /\ pc' = "done"
  /\ UNCHANGED raw

RulesNext == GenerateSurveyRules

RulesSpec == RulesInit /\ [][RulesNext]_vars

(***************************************************************************)
(* rejectSurveyPlan run against the answers of the candidate URLs          *)
(* (plannerBackend.ts 694-820)                                             *)
(***************************************************************************)
RejectInit ==
  /\ raw \in RejectAnswers
  /\ pc = "input"
  /\ fn = "none"
  /\ result = Undef

RejectSurveyPlan ==
  /\ pc = "input"
  /\ result' = rejectSurveyPlan(raw.v)
  /\ fn' = "rejectSurveyPlan"
  /\ pc' = "done"
  /\ UNCHANGED raw

RejectNext == RejectSurveyPlan

RejectSpec == RejectInit /\ [][RejectNext]_vars

(***************************************************************************)
(* A backend call, one request at a time: each step posts to the next      *)
(* candidate URL and acts on its answer (anomalyBackend.ts 383-417,        *)
(* plannerBackend.ts 89-117).  `result` holds the URLs requested so far    *)
(* and, once the call is over, what it returned or threw.                  *)
(***************************************************************************)
Requested == IF pc = "input" THEN <<>> ELSE Get(result, "requested").v
Outcome == Get(result, "outcome")
CallState(requested, outcome) ==
  Obj(<< <<"requested", Arr(requested)>>,
         <<"outcome", IF IsContinue(outcome) THEN Undef ELSE outcome>> >>)
\* the loop over the candidate URLs has been left
CallOver(state) == Get(state, "outcome") # Undef
NextUrl == Str(candidateUrls(Len(raw.v))[Len(Requested) + 1])
NextAnswer == raw.v[Len(Requested) + 1]

BackendInit ==
  /\ raw \in AnswerLists
  /\ pc = "input"
  /\ fn = "none"
  /\ result = Undef

PostSurveyPlanFast ==
  /\ pc \in {"input", "loop"}
  /\ fn \in {"none", "postSurveyPlanFast"}
  /\ result' = CallState(Append(Requested, NextUrl),
                         PostFastAnswer(Status(NextAnswer), ErrorText(NextAnswer),
                                        Len(Requested) + 1, Len(raw.v)))
  /\ pc' = IF CallOver(result') THEN "done" ELSE "loop"
  /\ fn' = "postSurveyPlanFast"
  /\ UNCHANGED raw

CreateSurveyPlan ==
  /\ pc \in {"input", "loop"}
  /\ fn \in {"none", "createSurveyPlan"}
  /\ result' = CallState(Append(Requested, NextUrl),
                         CreateAnswer(Status(NextAnswer), ErrorText(NextAnswer),
                                      Len(Requested) + 1, Len(raw.v)))
  /\ pc' = IF CallOver(result') THEN "done" ELSE "loop"
  /\ fn' = "createSurveyPlan"
  /\ UNCHANGED raw

BackendNext == PostSurveyPlanFast \/ CreateSurveyPlan

BackendSpec == BackendInit /\ [][BackendNext]_vars

(***************************************************************************)
(* A click on a generate button: the handler runs up to its backend call,  *)
(* and goes on when the call has settled (ConfigPage.tsx 179-409,          *)
(* anomalyBackend.ts 614-671).  `result` is the state of the page.         *)
(***************************************************************************)
PromptInit ==
  /\ raw \in PageVisits
  /\ pc = "input"
  /\ fn = "none"
  /\ result = Undef

\* ConfigPage.tsx 179-359, the toggle off
HandleGenerateFast ==
  /\ pc = "input"
  /\ result' = PageState(raw)
  /\ fn' = "handleGenerate"
  /\ pc' = "generateSurveyFast"
  /\ UNCHANGED raw

GenerateSurveyFastSettled ==
  /\ pc = "generateSurveyFast"
  /\ result' = AfterGenerateFast(result,
                 PostFastAnswer(Status(AnswerOf(raw)), ErrorText(AnswerOf(raw)), 1, 1))
  /\ pc' = "done"
  /\ UNCHANGED <<raw, fn>>

\* ConfigPage.tsx 179-234, the toggle on
HandleGeneratePlan ==
  /\ pc = "input"
  /\ result' = PageState(raw)
  /\ fn' = "handleGenerate"
  /\ pc' = "createSurveyPlan"
  /\ UNCHANGED raw

\* the handler is followed up to its next call, getSurveyPlan
CreateSurveyPlanSettled ==
  /\ pc = "createSurveyPlan"
  /\ LET outcome == CreateAnswer(Status(AnswerOf(raw)), ErrorText(AnswerOf(raw)), 1, 1)
     IN /\ result' = AfterCreatePlan(result, outcome)
        /\ pc' = IF Failed(outcome) \/ ~Truthy(Get(outcome, "thread_id"))
                 THEN "done" ELSE "getSurveyPlan"
  /\ UNCHANGED <<raw, fn>>

\* anomalyBackend.ts 614-651
HandleGenerateRules ==
  /\ pc = "input"
  /\ result' = PageState(raw)
  /\ fn' = "handleGenerateRules"
  /\ pc' = IF Trim(PromptBefore(raw).v) = "" THEN "done" ELSE "generateRules"
  /\ UNCHANGED raw

GenerateRulesSettled ==
  /\ pc = "generateRules"
  /\ result' = AfterGenerateRules(result,
                 RulesAnswer(Status(AnswerOf(raw)), ErrorText(AnswerOf(raw)),
                             Get(result, "threadId")))
  /\ pc' = "done"
  /\ UNCHANGED <<raw, fn>>

PromptNext ==
  \/ HandleGenerateFast \/ GenerateSurveyFastSettled
  \/ HandleGeneratePlan \/ CreateSurveyPlanSettled
  \/ HandleGenerateRules \/ GenerateRulesSettled

PromptSpec == PromptInit /\ [][PromptNext]_vars

(***************************************************************************)
(* Properties                                                              *)
(***************************************************************************)
Extracted == pc = "done" /\ fn = "extractPlanCandidate"
Converted == pc = "done" /\ fn = "convertSurveyToRenderedPages"
Transformed == pc = "done" /\ fn = "handleGenerate"
IsObject(x) == x.t = "object"
SectionsOf(x) == IF IsThrown(x) THEN Thrown ELSE Get(x, "sections")

\* C1: an object whose top-level `sections` is an array is returned as it
\* is, whatever other keys it carries.
C1_CanonicalPassThrough ==
  (Extracted /\ IsObject(raw) /\ IsArray(Get(raw, "sections"))) => result = raw

C1_Witness ==
  /\ Extracted /\ IsObject(raw) /\ IsArray(Get(raw, "sections"))
  /\ HasKey(raw, "survey") /\ HasKey(raw, "rendered_pages") /\ HasKey(raw, "questions")
  /\ HasKey(raw, "data")
  /\ result = raw

\* The six shapes of the detection order, by the top-level key each reads.
ShapeKeys == <<"sections", "survey", "rendered_pages", "generated_questions", "plan", "questions">>
Recognised(r, i) ==
  CASE i = 1 -> IsSections(r)
    [] i = 2 -> IsSurveyPages(r)
    [] i = 3 -> IsRenderedPages(r)
    [] i = 4 -> IsGeneratedRenderedPages(r) \/ IsGeneratedRecord(r)
    [] i = 5 -> IsPlanPages(r)
    [] i = 6 -> IsBareQuestions(r)
ShapeResult(r, i) ==
  CASE i = 1 -> r
    [] i = 2 -> SurveyPagesToPlan(r)
    [] i = 3 -> RenderedPagesToPlan(r)
    [] i = 4 -> (IF IsGeneratedRenderedPages(r) THEN GeneratedRenderedPagesToPlan(r)
                 ELSE GeneratedRecordToPlan(r))
    [] i = 5 -> PlanPagesToPlan(r)
    [] i = 6 -> BareQuestionsToPlan(r)
Matched(r) == {i \in 1..6 : Recognised(r, i)}
Earliest(r) == CHOOSE i \in Matched(r) : \A j \in Matched(r) : i <= j
KeepOnly(r, k) == LET IsKey(pair) == pair[1] = k IN Obj(SelectSeq(r.v, IsKey))
SeveralShapes(r) == IsObject(r) /\ Cardinality(Matched(r)) >= 2
\* the sections are those the earliest shape yields from its own key alone
EarliestShapeDecides(r, res) ==
  SectionsOf(res) = SectionsOf(ShapeResult(KeepOnly(r, ShapeKeys[Earliest(r)]), Earliest(r)))
PlanWrapperFirst(r) ==
  Earliest(r) = 5 /\ (HasSectionsUnder(r, "survey_plan") \/ HasSectionsUnder(r, "surveyPlan"))

\* C2 as stated: a payload that matches two or more of the six shapes is
\* converted by the earliest of them, and no other key influences the sections.
C2_Original ==
  (Extracted /\ SeveralShapes(raw)) => EarliestShapeDecides(raw, result)

\* C2 amended: the same, except that a survey_plan or surveyPlan value with a
\* sections array is returned (survey_plan first) before plan.pages is tried.
C2_DetectionOrder ==
  (Extracted /\ SeveralShapes(raw)) =>
     IF PlanWrapperFirst(raw)
     THEN result = (IF HasSectionsUnder(raw, "survey_plan") THEN Get(raw, "survey_plan")
                    ELSE Get(raw, "surveyPlan"))
     ELSE EarliestShapeDecides(raw, result)

C2_Witness ==
  /\ Extracted /\ SeveralShapes(raw)
  /\ Matched(raw) = {2, 3, 4, 5, 6}
  /\ HasSectionsUnder(raw, "survey_plan") /\ HasSectionsUnder(raw, "data")
  /\ ~IsThrown(result)
  /\ result = SurveyPagesToPlan(KeepOnly(raw, "survey"))

\* C3: extractPlanCandidate raises no exception, whatever the payload.
C3_NeverThrows == Extracted => ~IsThrown(result)

\* what an object has to carry for any branch of the chain to take it
At(r, a, b) == OptGet(Get(r, a), b)
MatchesNoShape(r) ==
  /\ ~IsArray(Get(r, "sections"))
  /\ ~IsArray(At(r, "survey", "pages"))
  /\ ~IsArray(Get(r, "rendered_pages"))
  /\ LET gq == Get(r, "generated_questions") IN
       \/ gq.t \notin {"object", "array"}
       \/ /\ ~IsArray(Get(gq, "rendered_pages"))
          /\ (Len(Values(gq)) = 0 \/ ~Truthy(OptGet(Values(gq)[1], "questions")))
  /\ ~IsArray(At(r, "plan", "pages"))
  /\ \A k \in WrapperKeys \cup {"plan"} : ~IsArray(At(r, k, "sections"))
  /\ ~IsArray(At(r, "data", "rendered_pages"))
  /\ ~IsArray(OptGet(At(r, "data", "generated_questions"), "rendered_pages"))
  /\ ~(IsArray(Get(r, "questions")) /\ ~Truthy(Get(r, "sections")))

\* C4: a value that is no object, or an object that matches no shape, is
\* returned exactly as received.
C4_UnrecognisedUntouched ==
  (Extracted /\ (~IsObject(raw) \/ MatchesNoShape(raw))) => result = raw

C4_Witness ==
  /\ Extracted /\ IsObject(raw) /\ MatchesNoShape(raw)
  /\ HasKey(raw, "questions")
  /\ result = raw


IsWrapped(r) ==
  IsObject(r) /\ Len(r.v) = 1 /\ r.v[1][1] \in WrapperKeys /\ IsObject(r.v[1][2])
WrapKey(r) == r.v[1][1]
Inner(r) == r.v[1][2]
SameSectionsAsInner(r, res) == SectionsOf(res) = SectionsOf(extractPlanCandidate(Inner(r)))

\* C5 as stated: under each of the four wrapper keys, a payload recognised
\* by one of the six shapes yields the sections it yields unwrapped.
C5_Original ==
  (Extracted /\ IsWrapped(raw) /\ Matched(Inner(raw)) # {}) => SameSectionsAsInner(raw, result)

\* C5 amended: that holds when the inner payload has a sections array (all
\* four keys) and, under `data` only, when its earliest shape is
\* rendered_pages or generated_questions with a rendered_pages array.  Any
\* other wrapped payload comes back unchanged, except that under `data` an
\* inner rendered_pages array (or generated_questions.rendered_pages array)
\* is converted by the rendered_pages rule.
C5_WrapperUnwrapping ==
  (Extracted /\ IsWrapped(raw) /\ Matched(Inner(raw)) # {}) =>
     LET k == WrapKey(raw)
         inner == Inner(raw)
         e == Earliest(inner)
     IN IF e = 1 THEN SameSectionsAsInner(raw, result) /\ result = inner
        ELSE IF k = "data" /\ (e = 3 \/ (e = 4 /\ IsGeneratedRenderedPages(inner)))
        THEN SameSectionsAsInner(raw, result)
        ELSE IF k = "data" /\ IsRenderedPages(inner)
        THEN result = RenderedPagesToPlan(DataRenderedPagesArg(raw))
        ELSE IF k = "data" /\ IsGeneratedRenderedPages(inner)
        THEN result = GeneratedRenderedPagesToPlan(DataGeneratedQuestionsArg(raw))
        ELSE result = raw

C5_Witness ==
  /\ Extracted /\ IsWrapped(raw) /\ WrapKey(raw) = "data"
  /\ Matched(Inner(raw)) # {} /\ Earliest(Inner(raw)) = 3
  /\ ~IsThrown(result)
  /\ SameSectionsAsInner(raw, result)

\* every question of every section of a plan
SectionCount(plan) == Len(Get(plan, "sections").v)
QuestionsOfSection(plan, i) == Get(Get(plan, "sections").v[i], "questions").v
QuestionDefined(q) == ~Nullish(q) /\ ~Nullish(Get(q, "text")) /\ ~Nullish(Get(q, "type"))
PlanQuestionsDefined(plan) ==
  \A i \in 1..SectionCount(plan) :
    \A j \in 1..Len(QuestionsOfSection(plan, i)) : QuestionDefined(QuestionsOfSection(plan, i)[j])
ConvertedShapes ==
  { "survey.pages", "rendered_pages", "generated_questions.rendered_pages",
    "generated_questions.record", "plan.pages", "data.rendered_pages",
    "data.generated_questions" }
Built == Extracted /\ ~IsThrown(result)

\* C6 as stated: for each of the six upstream shapes, bare questions[]
\* included, every question of the returned plan has a text and a type.
C6_Original ==
  (Built /\ DetectedShape(raw) \in ConvertedShapes \cup {"questions"})
     => PlanQuestionsDefined(result)

\* C6 amended: that holds for survey.pages, rendered_pages,
\* generated_questions and plan.pages; for bare questions[] the input
\* questions are handed on unchanged, with whatever text and type they have.
C6_QuestionsDefined ==
  Built =>
    /\ DetectedShape(raw) \in ConvertedShapes => PlanQuestionsDefined(result)
    /\ DetectedShape(raw) = "questions" =>
         /\ SectionCount(result) = 1
         /\ Get(Get(result, "sections").v[1], "questions") = Get(raw, "questions")

C6_Witness ==
  /\ Built /\ DetectedShape(raw) = "rendered_pages"
  /\ \E i \in 1..SectionCount(result) :
       LET up == Get(Get(raw, "rendered_pages").v[i], "questions") IN
       /\ IsArray(up) /\ Len(up.v) = 1 /\ IsObject(up.v[1])
       /\ \A k \in {"question_text", "text", "question_type", "type"} : ~HasKey(up.v[1], k)
       /\ Get(QuestionsOfSection(result, i)[1], "text") = Str("")
       /\ Get(QuestionsOfSection(result, i)[1], "type") = Str("text")

ChoiceTypes ==
  {Str("radio"), Str("checkbox_list"), Str("dropdown_list"), Str("choice"), Str("select")}

\* C7: in a plan built from survey.pages, rendered_pages, generated_questions
\* or plan.pages, every question of a choice-based type has an options array.
C7_OptionsPresent ==
  (Built /\ DetectedShape(raw) \in ConvertedShapes) =>
    \A i \in 1..SectionCount(result) :
      \A j \in 1..Len(QuestionsOfSection(result, i)) :
        LET q == QuestionsOfSection(result, i)[j] IN
        Get(q, "type") \in ChoiceTypes => IsArray(Get(q, "options"))

\* the controls of the i-th page of a survey, as both converters read them
SurveyPagesOf(r) == Get(Get(r, "survey"), "pages").v
ControlsOfPage(r, i) == Or(Get(SurveyPagesOf(r)[i], "controls"), EmptyArr).v
\* the first of settings.props.options, props.options that is a non-empty array
FirstNonEmptyOptions(control) ==
  LET so == OptGet(OptGet(Get(control, "settings"), "props"), "options")
      po == OptGet(Get(control, "props"), "options")
  IN IF IsArray(so) /\ Len(so.v) > 0 THEN so.v
     ELSE IF IsArray(po) /\ Len(po.v) > 0 THEN po.v
     ELSE <<>>

\* C8: the options of a control are read from the first of
\* settings.props.options, props.options that is a non-empty array.
C8_OptionPrecedence ==
  /\ (Built /\ DetectedShape(raw) = "survey.pages") =>
       \A i \in 1..SectionCount(result) :
         \A j \in 1..Len(ControlsOfPage(raw, i)) :
           LET source == FirstNonEmptyOptions(ControlsOfPage(raw, i)[j]) IN
           Get(QuestionsOfSection(result, i)[j], "options")
             = AnomalyOptionsField(Arr(Map(AnomalyOptionEntry, source)))
  /\ (Converted /\ ~IsThrown(result)) =>
       \A i \in 1..Len(result.v) :
         \A j \in 1..Len(ControlsOfPage(raw, i)) :
           LET source == FirstNonEmptyOptions(ControlsOfPage(raw, i)[j]) IN
           Get(Get(result.v[i], "questions").v[j], "options")
             = Arr(Map(PlannerOptionText, SelectSeq(source, PlannerOptionKept)))

\* an extracted option whose text is not empty once trimmed
OptionTextNonEmpty(entry) == IsString(entry) => Trim(entry.v) # ""
OptionsNonEmpty(q) ==
  IsArray(Get(q, "options")) =>
    \A n \in 1..Len(Get(q, "options").v) : OptionTextNonEmpty(Get(q, "options").v[n])

\* C9: neither survey.pages converter keeps an option whose text is empty
\* after trimming.
C9_EmptyOptionsDropped ==
  /\ (Built /\ DetectedShape(raw) = "survey.pages") =>
       \A i \in 1..SectionCount(result) :
         \A j \in 1..Len(QuestionsOfSection(result, i)) :
           OptionsNonEmpty(QuestionsOfSection(result, i)[j])
  /\ (Converted /\ ~IsThrown(result)) =>
       \A i \in 1..Len(result.v) :
         \A j \in 1..Len(Get(result.v[i], "questions").v) :
           OptionsNonEmpty(Get(result.v[i], "questions").v[j])

\* the upstream questions a rendered page or a plan page is converted from
RenderedShapes ==
  { "rendered_pages", "generated_questions.rendered_pages", "generated_questions.record",
    "data.rendered_pages", "data.generated_questions" }
UpstreamPages(r) ==
  LET shape == DetectedShape(r) IN
  CASE shape = "rendered_pages" -> Get(r, "rendered_pages").v
    [] shape = "generated_questions.rendered_pages" ->
         Get(Get(r, "generated_questions"), "rendered_pages").v
    [] shape = "generated_questions.record" -> Values(Get(r, "generated_questions"))
    [] shape = "data.rendered_pages" -> Get(Get(r, "data"), "rendered_pages").v
    [] shape = "data.generated_questions" ->
         Get(Get(Get(r, "data"), "generated_questions"), "rendered_pages").v
    [] shape = "plan.pages" -> Get(Get(r, "plan"), "pages").v
UpstreamQuestions(r, i) ==
  LET page == UpstreamPages(r)[i] IN
  IF DetectedShape(r) = "plan.pages"
  THEN (IF ~Truthy(Get(page, "section_brief")) /\ IsArray(Get(page, "question_specs"))
        THEN Get(page, "question_specs").v ELSE <<>>)
  ELSE (IF IsArray(Get(page, "questions")) THEN Get(page, "questions").v ELSE <<>>)
AbsenceFields == {"scale", "validation", "skip_logic"}
OneAbsence(up, out) ==
  \A f \in AbsenceFields :
    /\ Get(out, f) # Null
    /\ IF Nullish(Get(up, f)) THEN Get(out, f) = Undef ELSE Get(out, f) = Get(up, f)

\* C10: for a rendered-page question and for a plan.pages question_spec,
\* scale, validation and skip_logic are never null in the plan: null,
\* undefined and a missing key give undefined, any other value is kept.
C10_SingleAbsence ==
  (Built /\ DetectedShape(raw) \in RenderedShapes \cup {"plan.pages"}) =>
    \A i \in 1..SectionCount(result) :
      \A j \in 1..Len(UpstreamQuestions(raw, i)) :
        OneAbsence(UpstreamQuestions(raw, i)[j], QuestionsOfSection(result, i)[j])

C10_Witness ==
  /\ Built /\ DetectedShape(raw) = "rendered_pages"
  /\ \E i \in 1..SectionCount(result) :
       /\ Len(UpstreamQuestions(raw, i)) = 1
       /\ LET up == UpstreamQuestions(raw, i)[1]
              out == QuestionsOfSection(result, i)[1]
          IN /\ IsObject(up)
             /\ HasKey(up, "scale") /\ Get(up, "scale") = Null
             /\ Get(up, "validation") = Num(0)
             /\ ~HasKey(up, "skip_logic")
             /\ Get(out, "scale") = Undef
             /\ Get(out, "validation") = Num(0)
             /\ Get(out, "skip_logic") = Undef


OptionsMissingOrEmpty(q) ==
  Nullish(Get(q, "options")) \/ (IsArray(Get(q, "options")) /\ Len(Get(q, "options").v) = 0)
RenderedQuestionRenamed(up, out) ==
  /\ Truthy(Get(up, "question_text")) => Get(out, "text") = Get(up, "question_text")
  /\ Truthy(Get(up, "question_type")) => Get(out, "type") = Get(up, "question_type")
  /\ Get(out, "required") = Get(up, "required")
  /\ OptionsMissingOrEmpty(up) => Get(out, "options") = Undef
  /\ (IsArray(Get(up, "options")) /\ Len(Get(up, "options").v) > 0)
        => Get(out, "options") = Get(up, "options")

QuestionView(q) == <<Get(q, "text"), Get(q, "type"), Get(q, "options")>>
SectionView(section) ==
  <<Get(section, "title"), Map(QuestionView, Get(section, "questions").v)>>
PlanView(plan) ==
  IF IsThrown(plan) THEN <<"throws">> ELSE Map(SectionView, Get(plan, "sections").v)
AsRenderedPages(pages) == extractPlanCandidate(Obj(<< <<"rendered_pages", Arr(pages)>> >>))
OnlyGeneratedQuestions(r) ==
  IsObject(r) /\ Len(r.v) = 1 /\ r.v[1][1] = "generated_questions"
GeneratedValue(r) == Get(r, "generated_questions")
HasRenderedPagesList(g) ==
  TypeofObject(g) /\ ~Nullish(g) /\ Truthy(Get(g, "rendered_pages"))
     /\ IsArray(Get(g, "rendered_pages"))
HasPageValues(g) ==
  TypeofObject(g) /\ ~Nullish(g) /\ ~HasRenderedPagesList(g) /\ Len(Values(g)) > 0

\* C12 as stated: generated_questions.rendered_pages = P gives the sections
\* that rendered_pages = P gives, for every page list P, and without a
\* rendered_pages list the values of generated_questions are the page list.
C12_Original ==
  (Extracted /\ OnlyGeneratedQuestions(raw)) =>
    LET g == GeneratedValue(raw) IN
    /\ HasRenderedPagesList(g) =>
         PlanView(result) = PlanView(AsRenderedPages(Get(g, "rendered_pages").v))
    /\ HasPageValues(g) => PlanView(result) = PlanView(AsRenderedPages(Values(g)))

\* a question the two rules give the same text
SameTextQuestion(q) ==
  Nullish(q) \/ Truthy(Or(Get(q, "question_text"), Get(q, "text"))) \/ ~Truthy(Get(q, "intent"))
\* a page the two rules convert alike
RegularPage(page) ==
  \/ Nullish(page)
  \/ /\ Truthy(Get(page, "name"))
     /\ ~Truthy(Get(page, "questions")) \/ IsArray(Get(page, "questions"))
     /\ IsArray(Get(page, "questions")) =>
          \A j \in 1..Len(Get(page, "questions").v) : SameTextQuestion(Get(page, "questions").v[j])
RegularPages(pages) == \A i \in 1..Len(pages) : RegularPage(pages[i])

\* C12 amended: the two conversions agree when every page has a name, its
\* questions are an array (or missing) and every question has a
\* question_text or text; the values of generated_questions are the page
\* list only when the first of them has a truthy `questions`, otherwise
\* the input is returned unchanged.
C12_GeneratedAsRendered ==
  (Extracted /\ OnlyGeneratedQuestions(raw)) =>
    LET g == GeneratedValue(raw) IN
    /\ (HasRenderedPagesList(g) /\ RegularPages(Get(g, "rendered_pages").v)) =>
         PlanView(result) = PlanView(AsRenderedPages(Get(g, "rendered_pages").v))
    /\ (HasPageValues(g) /\ Truthy(OptGet(Values(g)[1], "questions"))
          /\ RegularPages(Values(g))) =>
         PlanView(result) = PlanView(AsRenderedPages(Values(g)))
    /\ (HasPageValues(g) /\ ~Truthy(OptGet(Values(g)[1], "questions"))) => result = raw

C12_Witness ==
  /\ Built /\ OnlyGeneratedQuestions(raw)
  /\ HasRenderedPagesList(GeneratedValue(raw))
  /\ RegularPages(Get(GeneratedValue(raw), "rendered_pages").v)
  /\ SectionCount(result) = 2
  /\ Len(QuestionsOfSection(result, 1)) = 2
  /\ PlanView(result) = PlanView(AsRenderedPages(Get(GeneratedValue(raw), "rendered_pages").v))


\* the plan.pages pages a plan's sections are made from
PlanPagesOf(r) == Get(Get(r, "plan"), "pages").v
PlaceholdersAsStated(page, section) ==
  LET brief == Get(page, "section_brief")
      questions == Get(section, "questions").v
      count == IF HasKey(brief, "question_count") /\ Get(brief, "question_count").t = "number"
               THEN Get(brief, "question_count").v ELSE 0
  IN /\ Len(questions) = count
     /\ \A n \in 1..Len(questions) :
          /\ Get(questions[n], "text") = Str("Question " \o ToString(n) \o " (to be generated)")
          /\ Get(questions[n], "section_brief") = brief

\* C13: a plan.pages page with a section_brief gives a section of exactly
\* section_brief.question_count questions (none when the count is absent),
\* the n-th with text "Question {n} (to be generated)" and carrying the brief.
C13_SectionBriefPlaceholders ==
  (/\ ~IsThrown(result)
   /\ (Extracted /\ DetectedShape(raw) = "plan.pages") \/ Transformed) =>
    \A i \in 1..Len(PlanPagesOf(raw)) :
      Truthy(Get(PlanPagesOf(raw)[i], "section_brief")) =>
        PlaceholdersAsStated(PlanPagesOf(raw)[i], Get(result, "sections").v[i])


\* C14 as stated: an object with a questions array and no sections, taken
\* by no earlier branch, gives exactly one section, titled "Survey
\* Questions", whose questions are the input questions in the same order.
C14_Original ==
  (Extracted /\ DetectedShape(raw) = "questions") =>
    /\ SectionCount(result) = 1
    /\ Get(Get(result, "sections").v[1], "title") = Str("Survey Questions")
    /\ Get(Get(result, "sections").v[1], "questions") = Get(raw, "questions")

\* C14 amended: the one section is titled with the input's own `title`
\* when it has a non-empty one, and "Survey Questions" otherwise.
C14_BareQuestionsFallback ==
  (Extracted /\ DetectedShape(raw) = "questions") =>
    /\ SectionCount(result) = 1
    /\ Get(Get(result, "sections").v[1], "title")
         = (IF Truthy(Get(raw, "title")) THEN Get(raw, "title") ELSE Str("Survey Questions"))
    /\ Get(Get(result, "sections").v[1], "questions") = Get(raw, "questions")

C14_Witness ==
  /\ Extracted /\ DetectedShape(raw) = "questions"
  /\ Get(raw, "title") = Str("My title")
  /\ Len(Get(raw, "questions").v) = 2
  /\ Get(Get(result, "sections").v[1], "title") = Str("My title")
  /\ Get(Get(result, "sections").v[1], "questions") = Get(raw, "questions")


TypeRemapped(control, questionType) ==
  /\ questionType # Str("select")
  /\ Get(control, "type") = Str("select") => questionType = Str("dropdown_list")
  /\ (Truthy(Get(control, "type")) /\ Get(control, "type") # Str("select"))
       => questionType = Get(control, "type")
  /\ ~Truthy(Get(control, "type")) => questionType = Str("text")

\* C15: both survey.pages converters give one question per control, in
\* control order; a `select` control becomes a `dropdown_list` question,
\* every other control type is kept (a control without a type gives
\* `text`), and no question has type `select`.
C15_SelectRemapped ==
  /\ (Built /\ DetectedShape(raw) = "survey.pages") =>
       /\ SectionCount(result) = Len(SurveyPagesOf(raw))
       /\ \A i \in 1..SectionCount(result) :
            /\ Len(QuestionsOfSection(result, i)) = Len(ControlsOfPage(raw, i))
            /\ \A j \in 1..Len(ControlsOfPage(raw, i)) :
                 /\ TypeRemapped(ControlsOfPage(raw, i)[j],
                                 Get(QuestionsOfSection(result, i)[j], "type"))
                 /\ Get(QuestionsOfSection(result, i)[j], "spec_id")
                      = Or(Or(Get(ControlsOfPage(raw, i)[j], "id"),
                              Get(ControlsOfPage(raw, i)[j], "name")), Str(""))
  /\ (Converted /\ ~IsThrown(result) /\ IsSurveyPages(raw)) =>
       /\ Len(result.v) = Len(SurveyPagesOf(raw))
       /\ \A i \in 1..Len(result.v) :
            /\ Len(Get(result.v[i], "questions").v) = Len(ControlsOfPage(raw, i))
            /\ \A j \in 1..Len(ControlsOfPage(raw, i)) :
                 TypeRemapped(ControlsOfPage(raw, i)[j],
                              Get(Get(result.v[i], "questions").v[j], "question_type"))

C15_Witness ==
  /\ Converted /\ ~IsThrown(result) /\ IsSurveyPages(raw)
  /\ Len(result.v) = 2
  /\ \E i \in 1..2 :
       /\ Len(ControlsOfPage(raw, i)) = 2
       /\ Get(ControlsOfPage(raw, i)[2], "type") = Str("radio")
       /\ Get(Get(result.v[i], "questions").v[2], "question_type") = Str("radio")
  /\ \E i \in 1..2 :
       /\ Get(ControlsOfPage(raw, i)[1], "type") = Str("select")
       /\ Get(Get(result.v[i], "questions").v[1], "question_type") = Str("dropdown_list")


Applied(name) == pc = "done" /\ fn = name
\* the first "/" that has a character on each side
FirstInnerSlash(s) ==
  { p \in 2..(Len(s) - 1) :
      CharAt(s, p) = "/" /\ \A k \in 2..(p - 1) : CharAt(s, k) # "/" }
LeftOf(s, p) == Trim(SubSeq(s, 1, p - 1))
RightOf(s, p) == Trim(SubSeq(s, p + 1, Len(s)))
CleanSplitAt(s, p) ==
  CharAt(s, p) = "/" /\ LeftOf(s, p) # "" /\ RightOf(s, p) # "" /\ LeftOf(s, p) # RightOf(s, p)
TextOrEmpty(x) == IF Truthy(x) THEN x ELSE Str("")

\* C16: getBothLanguages decomposes a string only at a "/" whose two sides
\* are non-empty and different after trimming, giving en = trimmed left and
\* ar = trimmed right (the "/" tried is the first with a character on each
\* side); every other string s gives {en: s, ar: s}; an object with both
\* keys gives its en and ar values, "" for a missing value; null and
\* undefined give {en: "", ar: ""}.
C16_SplitRule ==
  Applied("getBothLanguages") =>
    LET field == Field(raw) IN
    /\ Nullish(field) => result = Both(Str(""), Str(""))
    /\ IsString(field) =>
         LET s == field.v IN
         /\ result # Both(field, field) =>
              \E p \in 1..Len(s) :
                CleanSplitAt(s, p) /\ result = Both(Str(LeftOf(s, p)), Str(RightOf(s, p)))
         /\ \A p \in FirstInnerSlash(s) :
              CleanSplitAt(s, p) => result = Both(Str(LeftOf(s, p)), Str(RightOf(s, p)))
         /\ (\A p \in FirstInnerSlash(s) : ~CleanSplitAt(s, p)) => result = Both(field, field)
    /\ (field.t = "object" /\ HasKey(field, "en") /\ HasKey(field, "ar")) =>
         result = Both(TextOrEmpty(Get(field, "en")), TextOrEmpty(Get(field, "ar")))

C16_Witness ==
  /\ Applied("getBothLanguages")
  /\ Field(raw) = Str("A / B")
  /\ result = Both(Str("A"), Str("B"))

\* C17: getText(field, lang) is the `lang` side of getBothLanguages(field);
\* for a combined string "A / B" it is A for "en" and B for "ar".
C17_ResolveAgrees ==
  Applied("getText") => result = Get(getBothLanguages(Field(raw)), Lang(raw))

\* C18: getTextArray and getBothLanguagesArray resolve an array element by
\* element: same length, same order, duplicates kept; a null, undefined or
\* non-array input gives the empty array.
C18_ElementWise ==
  /\ Applied("getTextArray") =>
       IF IsArray(Field(raw))
       THEN /\ IsArray(result) /\ Len(result.v) = Len(Field(raw).v)
            /\ \A i \in 1..Len(result.v) : result.v[i] = getText(Field(raw).v[i], Lang(raw))
       ELSE result = EmptyArr
  /\ Applied("getBothLanguagesArray") =>
       IF IsArray(Field(raw))
       THEN /\ IsArray(result) /\ Len(result.v) = Len(Field(raw).v)
            /\ \A i \in 1..Len(result.v) : result.v[i] = getBothLanguages(Field(raw).v[i])
       ELSE result = EmptyArr

C18_Witness ==
  /\ Applied("getBothLanguagesArray")
  /\ Field(raw) = Arr(<<Str("A / B"), Str("A / B")>>)
  /\ result = Arr(<<Both(Str("A"), Str("B")), Both(Str("A"), Str("B"))>>)


Classified == Applied("handlePromptValidationError") /\ result.t = "error"
ErrorField(k) == Get(Obj(result.v), k)
\* the body's detail, when the body is a JSON document
DetailOf(response) ==
  IF ErrorText(response) = "" \/ IsThrown(JSONParse(ErrorText(response))) THEN Undef
  ELSE Get(JSONParse(ErrorText(response)), "detail")
WellFormedDetail(detail) ==
  /\ detail.t = "object"
  /\ Get(detail, "reason_code")
       \in { Str("too_short"), Str("gibberish"), Str("keyboard_walk"), Str("repetitive"),
             Str("unsupported"), Str("needs_clarification") }
  /\ IsString(Get(detail, "message")) /\ Get(detail, "message").v # ""
  /\ \/ ~HasKey(detail, "suggested_prompt")
     \/ Get(detail, "suggested_prompt") = Null
     \/ IsString(Get(detail, "suggested_prompt"))

\* C19: handlePromptValidationError throws a PromptValidationError exactly
\* when the status is 422, the body is a JSON document, its detail is an
\* object with one of the six reason codes, a non-empty string message and
\* a suggested_prompt that is absent, null or a string; in every other case
\* it returns false and raises nothing.
C19_ClassifierCharacterisation ==
  Applied("handlePromptValidationError") =>
    /\ result.t = "error" <=> (Status(raw) = 422 /\ WellFormedDetail(DetailOf(raw)))
    /\ result.t # "error" => result = Bool(FALSE)

C19_Witness ==
  /\ Classified
  /\ Status(raw) = 422
  /\ Get(DetailOf(raw), "reason_code") = Str("needs_clarification")
  /\ Get(DetailOf(raw), "suggested_prompt") = Str("Try this")

\* C20: the error thrown carries the body's detail.reason_code as
\* reasonCode and detail.message as message; its suggestedPrompt is
\* detail.suggested_prompt when that is a string, and null when it is null
\* or absent.
C20_ClassifierFields ==
  Classified =>
    /\ ErrorField("reasonCode") = Get(DetailOf(raw), "reason_code")
    /\ ErrorField("message") = Get(DetailOf(raw), "message")
    /\ ErrorField("suggestedPrompt")
         = (IF IsString(Get(DetailOf(raw), "suggested_prompt"))
            THEN Get(DetailOf(raw), "suggested_prompt") ELSE Null)



(***************************************************************************)
(* Rule structure converter                                                *)
(***************************************************************************)
RulesGenerated == Applied("generateSurveyRules")
SourceRulesOf(call) == Get(Get(FinalJson(call), "survey"), "rules")
NestedCall == RulesGenerated /\ IsArray(SourceRulesOf(raw))
SurveyRulesOf(x) == IF IsThrown(x) THEN Thrown ELSE At(x, "rules", "survey_rules")
\* the entries of rule.if.when / rule.if.then, none when the list is absent
EntriesOf(rule, key) ==
  IF HasKey(rule, "if") /\ HasKey(Get(rule, "if"), key)
  THEN Get(Get(rule, "if"), key).v ELSE <<>>
ValueOrEmpty(x, a, b) ==
  IF HasKey(x, a) /\ HasKey(Get(x, a), b) THEN Get(Get(x, a), b) ELSE Str("")
\* what the converter is to make of an action's target
ExpectedElement(action) ==
  LET target == Get(action, "target") IN
  IF HasKey(target, "ids")
  THEN IF IsArray(Get(target, "ids"))
       THEN Str(Join(Get(target, "ids").v, ", "))
       ELSE Get(target, "ids")
  ELSE IF HasKey(target, "type") THEN Get(target, "type") ELSE Str("")
ConditionKept(cond, out) ==
  /\ Get(out, "operator")
       = (IF HasKey(cond, "operator") THEN Get(cond, "operator") ELSE Str(""))
  /\ At(out, "left_side", "question_id") = ValueOrEmpty(cond, "leftOperand", "value")
ActionKept(action, out) ==
  /\ Get(out, "action_element") = ExpectedElement(action)
  /\ Get(out, "message_en") = At(action, "message", "en")
  /\ Get(out, "message_ar") = At(action, "message", "ar")
RuleKept(rule, out) ==
  LET when == EntriesOf(rule, "when")
      then == EntriesOf(rule, "then")
      conds == Get(out, "conditions")
      acts == Get(out, "actions")
  IN /\ IsArray(conds) /\ Len(conds.v) = Len(when)
     /\ IsArray(acts) /\ Len(acts.v) = Len(then)
     /\ \A j \in 1..Len(when) : ConditionKept(when[j], conds.v[j])
     /\ \A j \in 1..Len(then) : ActionKept(then[j], acts.v[j])

\* C21: a response with survey.rules[] gives one Rule per source rule, in
\* order, each with one condition per if.when entry and one action per
\* if.then entry; a condition keeps the source operator and takes
\* leftOperand.value as question_id (the empty string when the source has
\* none); action_element is target.ids joined with ", " when ids is an
\* array, the ids value when it is not, target.type when ids is absent (the
\* empty string when that is absent too); message.en / message.ar become
\* message_en / message_ar.
C21_NestedStructureKept ==
  NestedCall =>
    LET source == SourceRulesOf(raw).v
        out == SurveyRulesOf(result)
    IN /\ IsArray(out)
       /\ Len(out.v) = Len(source)
       /\ \A i \in 1..Len(source) : RuleKept(source[i], out.v[i])

C21_Witness ==
  /\ NestedCall
  /\ Len(SourceRulesOf(raw).v) = 1
  /\ Len(EntriesOf(SourceRulesOf(raw).v[1], "when")) = 1
  /\ Len(EntriesOf(SourceRulesOf(raw).v[1], "then")) = 2
  /\ LET out == SurveyRulesOf(result).v[1] IN
       /\ Get(Get(out, "conditions").v[1], "operator") = Str("equals")
       /\ At(Get(out, "conditions").v[1], "left_side", "question_id") = Str("q1")
       /\ Get(Get(out, "actions").v[1], "action_element") = Str("q1, q2")
       /\ Get(Get(out, "actions").v[2], "action_element") = Str("page")
       /\ Get(Get(out, "actions").v[1], "message_en") = Str("E")
       /\ Get(Get(out, "actions").v[1], "message_ar") = Str("R")


\* C22: for every condition of a nested-form rule, the converted
\* condition's right_side.value is the source rightOperand.value, whatever
\* that value is: 0, false and the empty string included.
C22_ConditionValueCarried ==
  NestedCall /\ ~IsThrown(result) =>
    \A i \in 1..Len(SourceRulesOf(raw).v) :
      LET when == EntriesOf(SourceRulesOf(raw).v[i], "when")
          conds == Get(SurveyRulesOf(result).v[i], "conditions")
      IN \A j \in 1..Len(when) :
           HasKey(Get(when[j], "rightOperand"), "value") =>
             At(conds.v[j], "right_side", "value")
               = At(when[j], "rightOperand", "value")


\* the `type` of the first entry of rule.if.then, "unknown" when the rule has
\* no `if`, no `if.then`, no first entry or no type on it
FirstActionType(rule) ==
  LET then == EntriesOf(rule, "then") IN
  IF Len(then) > 0 /\ HasKey(then[1], "type")
  THEN Get(then[1], "type") ELSE Str("unknown")

\* C23: meta_rule.rule_type of a converted rule is the `type` of the first
\* entry of if.then, and "unknown" when `if`, `if.then`, that entry or its
\* type is absent; no later action has a say.
C23_RuleTypeFromFirstAction ==
  NestedCall /\ ~IsThrown(result) =>
    \A i \in 1..Len(SourceRulesOf(raw).v) :
      At(SurveyRulesOf(result).v[i], "meta_rule", "rule_type")
        = FirstActionType(SourceRulesOf(raw).v[i])

\* the first action has no type, a later one has: the rule type is "unknown"
C23_Witness ==
  /\ NestedCall /\ ~IsThrown(result)
  /\ \E i \in 1..Len(SourceRulesOf(raw).v) :
       LET then == EntriesOf(SourceRulesOf(raw).v[i], "then") IN
       /\ Len(then) = 2
       /\ ~HasKey(then[1], "type")
       /\ Get(then[2], "type") = Str("show")
       /\ At(SurveyRulesOf(result).v[i], "meta_rule", "rule_type") = Str("unknown")


\* {thread_id, rules: {survey_rules: [...]}}
IsFlatForm(x) ==
  /\ IsString(Get(x, "thread_id"))
  /\ IsArray(At(x, "rules", "survey_rules"))
FlatCall ==
  /\ RulesGenerated
  /\ IsObject(FinalJson(raw))
  /\ ~IsArray(SourceRulesOf(raw))
PassedThrough(body) ==
  /\ ~IsThrown(result)
  /\ Get(result, "rules") = Get(body, "rules")
  /\ Get(result, "thread_id") = Get(body, "thread_id")

\* C24: a response without a survey.rules array that carries the flat form
\* {thread_id, rules: {survey_rules: [...]}} at the root or under `data`
\* comes back with that `rules` value unchanged and that thread_id; without
\* a survey.rules array no rule is converted, so whatever `rules` is
\* returned is a `rules` value of the response.
C24_FlatFormPassesThrough ==
  FlatCall =>
    LET response == FinalJson(raw)
        data == Get(response, "data")
    IN /\ IsFlatForm(data) => PassedThrough(data)
       /\ ~HasKey(response, "data") /\ IsFlatForm(response)
            => PassedThrough(response)
       /\ ~IsThrown(result)
            => Get(result, "rules") \in {Get(response, "rules"), Get(data, "rules")}

\* a flat response whose `survey` carries a `rules` that is not an array
C24_Witness ==
  /\ FlatCall
  /\ TypeofObject(SourceRulesOf(raw))
  /\ IsFlatForm(FinalJson(raw))
  /\ Len(At(result, "rules", "survey_rules").v) = 1
  /\ Get(result, "thread_id") = Str("t1")


(***************************************************************************)
(* Plan rejection                                                          *)
(***************************************************************************)
Rejected == Applied("rejectSurveyPlan")
\* the answer that ended the loop: the first that is not a 404
DecidingAnswer(answers) ==
  answers[CHOOSE i \in 1..Len(answers) :
            /\ Status(answers[i]) # NotFound
            /\ \A j \in 1..(i - 1) : Status(answers[j]) = NotFound]
Decided(answers) == \E i \in 1..Len(answers) : Status(answers[i]) # NotFound
MaxAttemptsAnswered ==
  /\ Rejected
  /\ Decided(raw.v)
  /\ Status(DecidingAnswer(raw.v)) = BadRequest
  /\ LET body == ParseAmong(RejectDocuments, ErrorText(DecidingAnswer(raw.v))) IN
       /\ IsObject(body)
       /\ At(body, "detail", "error_code") = Str("MAX_PLAN_ATTEMPTS_REACHED")

\* C25: when the reject endpoint answers 400 with a JSON body whose
\* detail.error_code is MAX_PLAN_ATTEMPTS_REACHED, the error thrown carries
\* errorCode MAX_PLAN_ATTEMPTS_REACHED with the body's thread_id,
\* current_attempt and max_attempts, and detail.message as its message when
\* the body has one; it is not the generic "Planner API error (400)".
C25_MaxAttemptsSurfaced ==
  MaxAttemptsAnswered =>
    LET detail == Get(ParseAmong(RejectDocuments, ErrorText(DecidingAnswer(raw.v))),
                      "detail")
    IN /\ FieldOfError(result, "errorCode") = Str("MAX_PLAN_ATTEMPTS_REACHED")
       /\ FieldOfError(result, "threadId") = Get(detail, "thread_id")
       /\ FieldOfError(result, "currentAttempt") = Get(detail, "current_attempt")
       /\ FieldOfError(result, "maxAttempts") = Get(detail, "max_attempts")
       /\ HasKey(detail, "message")
            => FieldOfError(result, "message") = Get(detail, "message")


(***************************************************************************)
(* Backend calls                                                           *)
(***************************************************************************)
PostedFast == Applied("postSurveyPlanFast")
\* the call ended on a 2xx answer
AnsweredOk == Decided(raw.v) /\ Ok(Status(DecidingAnswer(raw.v)))
BodyText == ErrorText(DecidingAnswer(raw.v))
\* the JSON value of the body; an empty body counts as null
BodyJson == IF BodyText = "" THEN Null ELSE ParseAmong(BackendDocuments, BodyText)
Candidate == extractPlanCandidate(BodyJson)
Rejected200 ==
  /\ PostedFast /\ AnsweredOk
  /\ ~IsThrown(BodyJson) /\ ~IsThrown(Candidate) /\ ~ResponseSchema(Candidate)
MessageOf(x) == FieldOfError(x, "message")
Least(a, b) == IF a < b THEN a ELSE b

\* C26: when a 2xx body is JSON (an empty body counting as null) and the
\* candidate made of it fails the strict schema, postSurveyPlanFast throws
\* the format-mismatch error, whose message carries the first
\* min(200, length) characters of the candidate's serialization and none
\* after them; a non-empty body that is not JSON raises "Anomaly backend
\* returned a non-JSON response." instead.
C26_MismatchDumpBounded ==
  /\ Rejected200 =>
       LET dump == JSONStringify(Candidate)
           kept == Least(DumpLimit, Len(dump))
       IN /\ IsError(Outcome)
          /\ MessageOf(Outcome)
               = Str(FormatMismatch \o SubSeq(dump, 1, kept) \o "...")
          /\ Len(MessageOf(Outcome).v) = Len(FormatMismatch) + kept + 3
  /\ PostedFast /\ AnsweredOk /\ BodyText # "" /\ IsThrown(BodyJson)
       => /\ IsError(Outcome)
          /\ MessageOf(Outcome) = Str("Anomaly backend returned a non-JSON response.")

\* a rejected candidate whose serialization is longer than the limit
C26_Witness ==
  /\ Rejected200
  /\ Len(JSONStringify(Candidate)) > DumpLimit
  /\ Len(MessageOf(Outcome).v) = Len(FormatMismatch) + DumpLimit + 3


Called == pc # "input"
UrlsOfCall == candidateUrls(Len(raw.v))
StatusOfUrl(j) == Status(raw.v[j])
StartsWith(s, prefix) ==
  Len(s) >= Len(prefix) /\ SubSeq(s, 1, Len(prefix)) = prefix
\* the error of a call none of whose candidate URLs exists
EndpointNotFound(x) ==
  /\ IsError(x)
  /\ \E backend \in {"Anomaly backend", "Planner API"} :
       MessageOf(x) = Str(backend \o " error (404). The endpoint was not found. Tried: "
                          \o JoinStrings(UrlsOfCall, ", "))
\* the URLs requested so far are the first of the list, in its order; all
\* but the last were answered 404
RequestedInOrder ==
  /\ Len(Requested) <= Len(UrlsOfCall)
  /\ \A j \in 1..Len(Requested) : Requested[j] = Str(UrlsOfCall[j])
  /\ \A j \in 1..(Len(Requested) - 1) : StatusOfUrl(j) = NotFound
RetryState ==
  Called =>
    /\ Len(Requested) >= 1
    /\ RequestedInOrder
    /\ pc = "loop" => /\ StatusOfUrl(Len(Requested)) = NotFound
                      /\ Len(Requested) < Len(UrlsOfCall)
                      /\ IsUndefined(Outcome)
    /\ pc = "done" =>
         LET last == Len(Requested) IN
         IF StatusOfUrl(last) = NotFound
         THEN last = Len(UrlsOfCall) /\ EndpointNotFound(Outcome)
         ELSE /\ ~Ok(StatusOfUrl(last)) => IsError(Outcome) /\ ~EndpointNotFound(Outcome)
              /\ ~IsUndefined(Outcome)
\* a step is one request, to one more URL, of a call that is not over
RetryStep ==
  /\ pc # "done"
  /\ Len(Requested') = Len(Requested) + 1
  /\ SubSeq(Requested', 1, Len(Requested)) = Requested

\* C27: in a backend call (postSurveyPlanFast, createSurveyPlan) the
\* candidate URLs are requested one at a time, in the order of the list and
\* each at most once; a URL is requested only after the one before it
\* answered 404; the first answer that is not a 404 ends the call, with an
\* error at once when it is not a 2xx; when every candidate answers 404 the
\* call fails with the endpoint-not-found error that lists the URLs tried.
C27_RetryProtocol == []RetryState /\ [][RetryStep]_vars

\* every candidate URL was tried and answered 404
C27_Witness ==
  /\ pc = "done"
  /\ Len(raw.v) = MaxUrls
  /\ Len(Requested) = MaxUrls
  /\ \A j \in 1..Len(raw.v) : StatusOfUrl(j) = NotFound
  /\ EndpointNotFound(Outcome)


\* a string, or {en, ar} with both values non-empty strings
WellTypedLabel(x) ==
  \/ IsString(x)
  \/ /\ IsObject(x)
     /\ IsString(Get(x, "en")) /\ Get(x, "en") # Str("")
     /\ IsString(Get(x, "ar")) /\ Get(x, "ar") # Str("")
WellTypedControl(control) ==
  /\ IsObject(control)
  /\ WellTypedLabel(Get(control, "label"))
  /\ LET options == At(control, "props", "options") IN
       IsUndefined(options)
         \/ (IsArray(options)
               /\ \A i \in 1..Len(options.v) :
                    IsObject(options.v[i]) /\ WellTypedLabel(Get(options.v[i], "label")))
WellTypedSurvey(r) ==
  /\ IsObject(r) /\ IsArray(At(r, "survey", "pages"))
  /\ \A i \in 1..Len(At(r, "survey", "pages").v) :
       LET page == At(r, "survey", "pages").v[i] IN
       /\ IsObject(page) /\ IsArray(Get(page, "controls"))
       /\ \A j \in 1..Len(Get(page, "controls").v) :
            WellTypedControl(Get(page, "controls").v[j])

\* C30: when a 2xx body is a survey.pages response whose controls have a
\* label, and option labels, that are each a string or an {en, ar} object
\* with both values non-empty, the candidate extractPlanCandidate builds
\* passes the strict response schema, and postSurveyPlanFast returns a plan
\* with one section per page.
C30_ConverterOutputAccepted ==
  PostedFast /\ AnsweredOk /\ ~IsThrown(BodyJson) /\ WellTypedSurvey(BodyJson) =>
    /\ ~IsThrown(Candidate)
    /\ ResponseSchema(Candidate)
    /\ IsObject(Outcome)
    /\ IsArray(Get(Outcome, "sections"))
    /\ Len(Get(Outcome, "sections").v) = Len(At(BodyJson, "survey", "pages").v)


(***************************************************************************)
(* Combined strings                                                        *)
(***************************************************************************)
\* {en, ar} with both values non-empty strings that differ
IsBilingualPair(label) ==
  /\ IsObject(label)
  /\ IsString(Get(label, "en")) /\ Get(label, "en") # Str("")
  /\ IsString(Get(label, "ar")) /\ Get(label, "ar") # Str("")
  /\ Get(label, "en") # Get(label, "ar")

\* C29: for every label {en, ar} of a control with both values non-empty
\* and different, getBothLanguages of the question text that
\* convertSurveyToRenderedPages makes of it (`en / ar`) is {en, ar} again,
\* also when en or ar holds a "/" or starts or ends with a space.
C29_CombineSplitRoundTrip ==
  Converted /\ IsArray(result) =>
    \A i \in 1..Len(result.v) :
      \A j \in 1..Len(ControlsOfPage(raw, i)) :
        LET label == Get(ControlsOfPage(raw, i)[j], "label") IN
        IsBilingualPair(label) =>
          getBothLanguages(Get(Get(result.v[i], "questions").v[j], "question_text"))
            = Both(Get(label, "en"), Get(label, "ar"))


(***************************************************************************)
(* Prompt pre-fill                                                         *)
(***************************************************************************)
\* the generate call of the handler failed with a prompt validation error
PromptRejected == pc = "done" /\ IsPromptValidationError(Get(result, "error"))
PromptInput == IF fn = "handleGenerateRules" THEN "ruleRequirements" ELSE "aiPrompt"
Suggested == FieldOfError(Get(result, "error"), "suggestedPrompt")

====
